---- MODULE Spec2Model ----
(***************************************************************************)
(* Model of cython-ctypes-perf: the benchmark harness                      *)
(* (benchmarks/benchmark_runner.py), the ctypes adapter                    *)
(* (src/ctypes_wrapper.py) and the native library the adapter binds.       *)
(*                                                                         *)
(* Eight specifications share the variables:                               *)
(*   Spec       the harness on a fresh runner: one benchmark call, with    *)
(*              every loop count and every elapsed time of the bounds,     *)
(*              and any number of save_results calls;                      *)
(*   SpecSuite  the harness driven through a suite of up to MaxRuns        *)
(*              benchmark calls by a runner of one iteration;              *)
(*   SpecMem    the owning wrappers of the ctypes adapter over a heap;     *)
(*   SpecPure   the value-returning wrappers applied to bounded inputs;    *)
(*   SpecCalls  the scalar and marshalling wrappers of the ctypes adapter  *)
(*              applied to bounded inputs;                                 *)
(*   SpecArray  the array wrappers over one array of the caller;           *)
(*   SpecLive   one run_benchmark, or one owning wrapper, followed to its  *)
(*              end under weak fairness of the running method's steps;     *)
(*   SpecTiming BenchmarkResult.add_timing called with any label.          *)
(***************************************************************************)
EXTENDS Integers, Sequences, FiniteSets, TLC

VARIABLES
    \* ---- harness (benchmark_runner.py) ----
    CYTHON_AVAILABLE,   \* module flag set by the import of cython_wrapper
    CTYPES_AVAILABLE,   \* module flag set by the import of ctypes_wrapper
    iterations,         \* BenchmarkRunner.iterations
    warmup,             \* BenchmarkRunner.warmup
    results,            \* BenchmarkRunner.results, a list of BenchmarkResult
    pc,                 \* position inside the running harness method
    i,                  \* loop counter of the running for-loop
    result,             \* the local `result` of the running method
    calls,              \* history: adapter calls made per phase in this run
    errors,             \* history: error lines printed per phase in this run
    callLog,            \* history: the names of the calls made, in call order
    saved,              \* the content of the results file, None before a save
    tracing,            \* tracemalloc.is_tracing() of the process
    tracelog,           \* history: tracemalloc and adapter events of the
                        \* running run_memory_benchmark
    \* ---- owning wrappers of the ctypes adapter (ctypes_wrapper.py) ----
    heap,               \* the native heap: the cells malloc has handed out
    wpc,                \* position inside the running wrapper
    wloc,               \* the locals of the running wrapper
    wret,               \* the value the last wrapper call returned
    wtrace,             \* history: heap events of the running / last call
    ncalls,             \* history: wrapper calls started
    \* ---- value-returning wrappers, called from the interpreter ----
    pcall,              \* the last call made: the function and its argument
    pret                \* the value that call returned

traceVars == <<tracing, tracelog>>

harnessVars == <<CYTHON_AVAILABLE, CTYPES_AVAILABLE, iterations, warmup,
                 results, pc, i, result, calls, errors, callLog, saved,
                 traceVars>>

memVars == <<heap, wpc, wloc, wret, wtrace, ncalls>>

pureVars == <<pcall, pret>>

vars == <<harnessVars, memVars, pureVars>>

-----------------------------------------------------------------------------
(* Bounds of the model                                                     *)

MaxRuns == 2          \* benchmark calls made on one runner (SpecSuite)
MaxIterations == 2    \* largest `iterations` a runner is constructed with
MaxWarmup == 1        \* largest `warmup` a runner is constructed with
LongWarmup == 2       \* the `warmup` of the runner followed to its end (SpecLive)
MaxSamples == 3       \* samples added to one BenchmarkResult (SpecTiming)
MaxElapsed == 1       \* largest elapsed time of one call, in clock ticks
MaxCalls == 2         \* wrapper calls made on one heap (SpecMem)
MaxStrLen == 1        \* longest Python string passed, in code points
MaxArraySize == 2     \* largest size passed to ct_allocate_and_sum
MaxListSize == 3      \* largest small size passed to ct_list_operations
MaxFibN == 16         \* largest n both Fibonacci functions are called with
MaxPrimeN == 100      \* is_prime is called with -MaxPrimeN..MaxPrimeN
ExactLimbs == 44      \* 16-bit limbs of the exact Fibonacci numbers
WalkDepth == 17       \* a list walk covers 2^WalkDepth nodes
MaxCountN == 8        \* count_primes ranges lie in -MaxCountN..MaxCountN
MaxAddN == 2          \* add_numbers operands lie within MaxAddN of 0, INT_MIN, INT_MAX
MaxArrayLen == 3      \* length of the caller's array
MaxStride == 4        \* stride of sum_strided
MaxLengthStr == 3     \* characters of a string given to string_length
MaxPoints == 2        \* DataPoints given to sum_datapoints
MaxPointId == 2       \* DataPoint ids are -MaxPointId and MaxPointId
MaxPointValue == 3    \* DataPoint values are 1 and MaxPointValue
MaxPopLimb == 3       \* small halves of the values given to popcount

-----------------------------------------------------------------------------
(* Python values                                                           *)

\* Python's None.
None == [none |-> TRUE]

Names == {"bench_a", "bench_b"}
Categories == {"cat"}
\* kwargs.get('params', {}): the empty dict, or a dict the driver passes.
EmptyParams == [keys |-> 0]
ParamsChoices == {EmptyParams, [keys |-> 1]}

\* Elapsed times of one call: time.perf_counter() is monotonic, so the
\* difference of two readings is >= 0; 0 is a call below the timer resolution.
ElapsedTimes == 0..MaxElapsed

\* Floating point values a statistic can take are modelled as exact fractions
\* num/den, plus the two IEEE results of a division by zero.
Frac(n, d) == [num |-> n, den |-> d]
Inf == [ieee |-> "inf"]
NaN == [ieee |-> "nan"]
IsFrac(x) == DOMAIN x = {"num", "den"}
FracEq(a, b) == IsFrac(a) /\ IsFrac(b) /\ a.num * b.den = b.num * a.den
FracPositive(a) == IsFrac(a) /\ a.num * a.den > 0

\* numpy float64 division: a zero divisor yields inf or nan (with a warning),
\* it does not raise.
FracDiv(a, b) ==
    IF b.num = 0
    THEN (IF a.num = 0 THEN NaN ELSE Inf)
    ELSE Frac(a.num * b.den, a.den * b.num)

RECURSIVE SumSeq(_)
SumSeq(s) == IF s = <<>> THEN 0 ELSE Head(s) + SumSeq(Tail(s))

MinSeq(s) == CHOOSE m \in {s[k] : k \in 1..Len(s)} :
                 \A k \in 1..Len(s) : m <= s[k]
MaxSeq(s) == CHOOSE m \in {s[k] : k \in 1..Len(s)} :
                 \A k \in 1..Len(s) : m >= s[k]

\* np.mean
Mean(s) == Frac(SumSeq(s), Len(s))

-----------------------------------------------------------------------------
(* BenchmarkResult                                                         *)

\* BenchmarkResult.__init__
BenchmarkResult(name, category) ==
    [name |-> name, category |-> category,
     cython_times |-> <<>>, ctypes_times |-> <<>>,
     cython_memory |-> None, ctypes_memory |-> None,
     params |-> EmptyParams]

\* Mutant of add_timing: a label that names neither adapter adds nothing.
add_timing_KnownLabels(r, framework, elapsed_time) ==
    IF framework = "cython"
    THEN [r EXCEPT !.cython_times = Append(@, elapsed_time)]
    ELSE IF framework = "ctypes"
    THEN [r EXCEPT !.ctypes_times = Append(@, elapsed_time)]
    ELSE r

\* BenchmarkResult.add_timing
add_timing(r, framework, elapsed_time) ==
    IF framework = "cython"
    THEN [r EXCEPT !.cython_times = Append(@, elapsed_time)]
    ELSE [r EXCEPT !.ctypes_times = Append(@, elapsed_time)]

\* BenchmarkResult.get_stats (median and std are not modelled: no branch of
\* the program reads them)
get_stats(r, framework) ==
    LET times == IF framework = "cython" THEN r.cython_times
                                         ELSE r.ctypes_times
    IN  IF times = <<>>
        THEN None
        ELSE [mean |-> Mean(times),
              min |-> MinSeq(times),
              max |-> MaxSeq(times),
              throughput |-> IF FracPositive(Mean(times))
                             THEN FracDiv(Frac(1, 1), Mean(times))
                             ELSE Frac(0, 1)]

\* The truth value Python gives a value in `if x:`: None is false, a
\* non-empty dict is true.
Truthy(x) == x # None

\* Mutant of to_dict: the quotient the other way round.
to_dict_Inverted(r) ==
    LET base == [name |-> r.name, category |-> r.category,
                 params |-> r.params,
                 cython |-> get_stats(r, "cython"),
                 ctypes |-> get_stats(r, "ctypes")]
    IN  IF Truthy(base.cython) /\ Truthy(base.ctypes)
        THEN base @@ ("speedup" :> FracDiv(base.cython.mean, base.ctypes.mean))
        ELSE base

\* BenchmarkResult.to_dict
to_dict(r) ==
    LET base == [name |-> r.name, category |-> r.category,
                 params |-> r.params,
                 cython |-> get_stats(r, "cython"),
                 ctypes |-> get_stats(r, "ctypes")]
        withCy == IF Truthy(r.cython_memory)
                  THEN base @@ ("cython_memory" :> r.cython_memory)
                  ELSE base
        withCt == IF Truthy(r.ctypes_memory)
                  THEN withCy @@ ("ctypes_memory" :> r.ctypes_memory)
                  ELSE withCy
    IN  IF Truthy(base.cython) /\ Truthy(base.ctypes)
        THEN withCt @@ ("speedup" :> FracDiv(base.ctypes.mean, base.cython.mean))
        ELSE withCt

-----------------------------------------------------------------------------
(* BenchmarkRunner                                                         *)

Phases == {"cy_warmup", "ct_warmup", "cy_timed", "ct_timed"}
NoCalls == [p \in Phases |-> 0]

\* tracemalloc / psutil readings stored by run_memory_benchmark
MemoryRecords == {[current |-> 0, peak |-> 0, rss_delta |-> 0],
                  [current |-> 1, peak |-> 2, rss_delta |-> -1]}

\* Module import and BenchmarkRunner.__init__(iterations, warmup)
InitRunner(iterationsArgs, warmupArgs) ==
    /\ CYTHON_AVAILABLE \in BOOLEAN
    /\ CTYPES_AVAILABLE \in BOOLEAN
    /\ iterations \in iterationsArgs
    /\ warmup \in warmupArgs
    /\ results = <<>>
    /\ pc = "idle"
    /\ i = 0
    /\ result = None
    /\ calls = NoCalls
    /\ errors = NoCalls
    /\ callLog = <<>>
    /\ saved = None
    /\ tracing = FALSE
    /\ tracelog = <<>>

\* The harness before any benchmark call.
HarnessIdle ==
    /\ CYTHON_AVAILABLE = TRUE
    /\ CTYPES_AVAILABLE = TRUE
    /\ iterations = 0
    /\ warmup = 0
    /\ results = <<>>
    /\ pc = "idle"
    /\ i = 0
    /\ result = None
    /\ calls = NoCalls
    /\ errors = NoCalls
    /\ callLog = <<>>
    /\ saved = None
    /\ tracing = FALSE
    /\ tracelog = <<>>

\* run_benchmark, entry: lines 96-102
RunBenchmark(name, category, params) ==
    /\ pc = "idle"
    /\ result' = [BenchmarkResult(name, category) EXCEPT !.params = params]
    /\ pc' = "cy_warmup"
    /\ i' = 0
    /\ calls' = NoCalls
    /\ errors' = NoCalls
    /\ callLog' = Append(callLog, name)
    /\ UNCHANGED <<CYTHON_AVAILABLE, CTYPES_AVAILABLE, iterations, warmup,
                   results, saved>>
    /\ UNCHANGED <<memVars, pureVars, traceVars>>

\* Mutant of WarmupCall: an exception of a warmup call ends the warmup loop.
WarmupCall_Break(phase, available, raised) ==
    /\ pc = phase
    /\ available
    /\ i < warmup
    /\ calls' = [calls EXCEPT ![phase] = @ + 1]
    /\ errors' = IF raised THEN [errors EXCEPT ![phase] = @ + 1] ELSE errors
    /\ i' = IF raised THEN warmup ELSE i + 1
    /\ UNCHANGED <<CYTHON_AVAILABLE, CTYPES_AVAILABLE, iterations, warmup,
                   results, pc, result, callLog, saved>>
    /\ UNCHANGED <<memVars, pureVars, traceVars>>

\* Mutant of WarmupCall: a warmup call that raised is made again.
WarmupCall_Retry(phase, available, raised) ==
    /\ pc = phase
    /\ available
    /\ i < warmup
    /\ calls' = [calls EXCEPT ![phase] = @ + 1]
    /\ errors' = IF raised THEN [errors EXCEPT ![phase] = @ + 1] ELSE errors
    /\ i' = IF raised THEN i ELSE i + 1
    /\ UNCHANGED <<CYTHON_AVAILABLE, CTYPES_AVAILABLE, iterations, warmup,
                   results, pc, result, callLog, saved>>
    /\ UNCHANGED <<memVars, pureVars, traceVars>>

\* One pass of a warmup loop body: lines 107-110 (cython), 114-117 (ctypes).
\* The exception is printed and the loop goes on.
WarmupCall(phase, available, raised) ==
    /\ pc = phase
    /\ available
    /\ i < warmup
    /\ calls' = [calls EXCEPT ![phase] = @ + 1]
    /\ errors' = IF raised THEN [errors EXCEPT ![phase] = @ + 1] ELSE errors
    /\ i' = i + 1
    /\ UNCHANGED <<CYTHON_AVAILABLE, CTYPES_AVAILABLE, iterations, warmup,
                   results, pc, result, callLog, saved>>
    /\ UNCHANGED <<memVars, pureVars, traceVars>>

\* Mutant of WarmupDone: the loop is left before its last pass.
WarmupDone_Early(phase, available, next) ==
    /\ pc = phase
    /\ pc' = next
    /\ i' = 0
    /\ UNCHANGED <<CYTHON_AVAILABLE, CTYPES_AVAILABLE, iterations, warmup,
                   results, result, calls, errors, callLog, saved>>
    /\ UNCHANGED <<memVars, pureVars, traceVars>>

\* A warmup loop is over, or skipped because the adapter is unavailable.
WarmupDone(phase, available, next) ==
    /\ pc = phase
    /\ (~available \/ i >= warmup)
    /\ pc' = next
    /\ i' = 0
    /\ UNCHANGED <<CYTHON_AVAILABLE, CTYPES_AVAILABLE, iterations, warmup,
                   results, result, calls, errors, callLog, saved>>
    /\ UNCHANGED <<memVars, pureVars, traceVars>>

\* Mutant of TimedCall: an exception of a timed call ends the benchmark.
TimedCall_Abort(phase, framework, available, next, raised, elapsed) ==
    /\ pc = phase
    /\ available
    /\ i < iterations
    /\ calls' = [calls EXCEPT ![phase] = @ + 1]
    /\ IF raised
       THEN /\ errors' = [errors EXCEPT ![phase] = @ + 1]
            /\ pc' = "append"
            /\ i' = 0
            /\ result' = result
       ELSE /\ errors' = errors
            /\ pc' = pc
            /\ i' = i + 1
            /\ result' = add_timing(result, framework, elapsed)
    /\ UNCHANGED <<CYTHON_AVAILABLE, CTYPES_AVAILABLE, iterations, warmup,
                   results, callLog, saved>>
    /\ UNCHANGED <<memVars, pureVars, traceVars>>

\* Mutant of TimedCall: `continue` in place of `break`.
TimedCall_Continue(phase, framework, available, next, raised, elapsed) ==
    /\ pc = phase
    /\ available
    /\ i < iterations
    /\ calls' = [calls EXCEPT ![phase] = @ + 1]
    /\ errors' = IF raised THEN [errors EXCEPT ![phase] = @ + 1] ELSE errors
    /\ i' = i + 1
    /\ result' = IF raised THEN result
                 ELSE add_timing(result, framework, elapsed)
    /\ UNCHANGED <<CYTHON_AVAILABLE, CTYPES_AVAILABLE, iterations, warmup,
                   results, pc, callLog, saved>>
    /\ UNCHANGED <<memVars, pureVars, traceVars>>

\* One pass of a timed loop body: lines 123-130 (cython), 136-143 (ctypes).
\* A raising call prints the error and breaks out of the loop; a returning
\* call records its elapsed time.
TimedCall(phase, framework, available, next, raised, elapsed) ==
    /\ pc = phase
    /\ available
    /\ i < iterations
    /\ calls' = [calls EXCEPT ![phase] = @ + 1]
    /\ IF raised
       THEN /\ errors' = [errors EXCEPT ![phase] = @ + 1]
            /\ pc' = next
            /\ i' = 0
            /\ result' = result
       ELSE /\ errors' = errors
            /\ pc' = pc
            /\ i' = i + 1
            /\ result' = add_timing(result, framework, elapsed)
    /\ UNCHANGED <<CYTHON_AVAILABLE, CTYPES_AVAILABLE, iterations, warmup,
                   results, callLog, saved>>
    /\ UNCHANGED <<memVars, pureVars, traceVars>>

\* Mutant of TimedDone: the loop is left before its last pass.
TimedDone_Early(phase, available, next) ==
    /\ pc = phase
    /\ pc' = next
    /\ i' = 0
    /\ UNCHANGED <<CYTHON_AVAILABLE, CTYPES_AVAILABLE, iterations, warmup,
                   results, result, calls, errors, callLog, saved>>
    /\ UNCHANGED <<memVars, pureVars, traceVars>>

\* A timed loop ran all its iterations, or is skipped.
TimedDone(phase, available, next) ==
    /\ pc = phase
    /\ (~available \/ i >= iterations)
    /\ pc' = next
    /\ i' = 0
    /\ UNCHANGED <<CYTHON_AVAILABLE, CTYPES_AVAILABLE, iterations, warmup,
                   results, result, calls, errors, callLog, saved>>
    /\ UNCHANGED <<memVars, pureVars, traceVars>>

\* Mutant of FinishBenchmark: a run in which a call raised records no result.
FinishBenchmark_DropFailed ==
    /\ pc = "append"
    /\ results' = IF \E phase \in Phases : errors[phase] > 0
                  THEN results ELSE Append(results, result)
    /\ pc' = "idle"
    /\ UNCHANGED <<CYTHON_AVAILABLE, CTYPES_AVAILABLE, iterations, warmup,
                   i, result, calls, errors, callLog, saved>>
    /\ UNCHANGED <<memVars, pureVars, traceVars>>

\* run_benchmark, exit: lines 145-156
FinishBenchmark ==
    /\ pc = "append"
    /\ results' = Append(results, result)
    /\ pc' = "idle"
    /\ UNCHANGED <<CYTHON_AVAILABLE, CTYPES_AVAILABLE, iterations, warmup,
                   i, result, calls, errors, callLog, saved>>
    /\ UNCHANGED <<memVars, pureVars, traceVars>>

\* run_memory_benchmark, entry: lines 158-162
RunMemoryBenchmark(name, category) ==
    /\ pc = "idle"
    /\ result' = BenchmarkResult(name, category)
    /\ pc' = "cy_memory"
    /\ calls' = NoCalls
    /\ errors' = NoCalls
    /\ callLog' = Append(callLog, name)
    /\ UNCHANGED <<CYTHON_AVAILABLE, CTYPES_AVAILABLE, iterations, warmup,
                   results, i, saved, tracing, tracelog>>
    /\ UNCHANGED <<memVars, pureVars>>

\* The block of an adapter that is not available is skipped: lines 164, 186.
MemorySkip(at, available, next) ==
    /\ pc = at
    /\ ~available
    /\ pc' = next
    /\ UNCHANGED <<CYTHON_AVAILABLE, CTYPES_AVAILABLE, iterations, warmup,
                   results, i, result, calls, errors, callLog, saved,
                   tracing, tracelog>>
    /\ UNCHANGED <<memVars, pureVars>>

\* gc.collect(); tracemalloc.start(); the RSS reading before the call:
\* lines 165-169 (cython), 187-191 (ctypes)
MemoryStart(at, available, next) ==
    /\ pc = at
    /\ available
    /\ tracing' = TRUE
    /\ tracelog' = Append(tracelog, "start")
    /\ pc' = next
    /\ UNCHANGED <<CYTHON_AVAILABLE, CTYPES_AVAILABLE, iterations, warmup,
                   results, i, result, calls, errors, callLog, saved>>
    /\ UNCHANGED <<memVars, pureVars>>

\* The measured adapter call inside its try block: lines 171-174, 193-196.
\* An exception is printed and the method goes on.
MemoryCall(at, next, raised) ==
    /\ pc = at
    /\ tracelog' = Append(tracelog, IF raised THEN "raised" ELSE "returned")
    /\ pc' = next
    /\ UNCHANGED <<CYTHON_AVAILABLE, CTYPES_AVAILABLE, iterations, warmup,
                   results, i, result, calls, errors, callLog, saved,
                   tracing>>
    /\ UNCHANGED <<memVars, pureVars>>

\* Mutant of MemoryStop: the record is stored while the tracing stays on.
MemoryStop_StillTracing(at, framework, next, mem) ==
    /\ pc = at
    /\ tracelog' = tracelog
    /\ tracing' = tracing
    /\ result' = IF framework = "cython"
                 THEN [result EXCEPT !.cython_memory = mem]
                 ELSE [result EXCEPT !.ctypes_memory = mem]
    /\ pc' = next
    /\ UNCHANGED <<CYTHON_AVAILABLE, CTYPES_AVAILABLE, iterations, warmup,
                   results, i, calls, errors, callLog, saved>>
    /\ UNCHANGED <<memVars, pureVars>>

\* get_traced_memory(); tracemalloc.stop(); the RSS reading after the call and
\* the memory record: lines 176-184 (cython), 198-206 (ctypes)
MemoryStop(at, framework, next, mem) ==
    /\ pc = at
    /\ tracing' = FALSE
    /\ tracelog' = Append(tracelog, "stop")
    /\ result' = IF framework = "cython"
                 THEN [result EXCEPT !.cython_memory = mem]
                 ELSE [result EXCEPT !.ctypes_memory = mem]
    /\ pc' = next
    /\ UNCHANGED <<CYTHON_AVAILABLE, CTYPES_AVAILABLE, iterations, warmup,
                   results, i, calls, errors, callLog, saved>>
    /\ UNCHANGED <<memVars, pureVars>>

\* run_memory_benchmark, exit: lines 208-210
FinishMemoryBenchmark ==
    /\ pc = "mem_append"
    /\ results' = Append(results, result)
    /\ pc' = "idle"
    /\ tracelog' = <<>>
    /\ UNCHANGED <<CYTHON_AVAILABLE, CTYPES_AVAILABLE, iterations, warmup,
                   i, result, calls, errors, callLog, saved, tracing>>
    /\ UNCHANGED <<memVars, pureVars>>

\* Mutant of save_results: only the results that hold a timing are written.
SaveResults_TimedOnly ==
    /\ pc = "idle"
    /\ saved' = [metadata |-> [iterations |-> iterations, warmup |-> warmup,
                               cython_available |-> CYTHON_AVAILABLE,
                               ctypes_available |-> CTYPES_AVAILABLE],
                 results |-> SelectSeq([k \in 1..Len(results) |->
                                           to_dict(results[k])],
                                       LAMBDA d : Truthy(d.cython)
                                                  \/ Truthy(d.ctypes))]
    /\ UNCHANGED <<CYTHON_AVAILABLE, CTYPES_AVAILABLE, iterations, warmup,
                   results, pc, i, result, calls, errors, callLog>>
    /\ UNCHANGED <<memVars, pureVars, traceVars>>

\* save_results: lines 212-229
SaveResults ==
    /\ pc = "idle"
    /\ saved' = [metadata |-> [iterations |-> iterations, warmup |-> warmup,
                               cython_available |-> CYTHON_AVAILABLE,
                               ctypes_available |-> CTYPES_AVAILABLE],
                 results |-> [k \in 1..Len(results) |-> to_dict(results[k])]]
    /\ UNCHANGED <<CYTHON_AVAILABLE, CTYPES_AVAILABLE, iterations, warmup,
                   results, pc, i, result, calls, errors, callLog>>
    /\ UNCHANGED <<memVars, pureVars, traceVars>>

-----------------------------------------------------------------------------
(* Fixed-width integers. The model checker's integers are 32 bits wide, so  *)
(* a 32-bit sum is wrapped without ever forming a wider value.              *)

INT_MAX == 2147483647
INT_MIN == -INT_MAX - 1

\* The bytes of the name field of a DataPoint
NameCapacity == 32

\* Two's-complement addition of two C ints.
Add32(a, b) ==
    IF b >= 0 /\ a > INT_MAX - b
    THEN (a - INT_MAX - 1) + (b - INT_MAX - 1)
    ELSE IF b < 0 /\ a < INT_MIN - b
         THEN (a + INT_MAX + 1) + (b + INT_MAX + 1)
         ELSE a + b

-----------------------------------------------------------------------------
(* Python strings and their UTF-8 encoding                                 *)

\* Code points: NUL, 'a' (one byte), e-acute (two bytes).
Alphabet == {0, 97, 233}

RECURSIVE StringsUpTo(_)
StringsUpTo(n) ==
    IF n = 0 THEN {<<>>}
    ELSE LET shorter == StringsUpTo(n - 1)
         IN  shorter \cup {Append(t, c) : t \in shorter, c \in Alphabet}
Strings == StringsUpTo(MaxStrLen)

\* str.encode('utf-8'), for code points below U+0800: the encodings of the
\* code points one after another, joined by halves of the string.
RECURSIVE Utf8Encode(_)
Utf8Encode(str) ==
    IF str = <<>> THEN <<>>
    ELSE IF Len(str) = 1
    THEN LET c == Head(str)
         IN  IF c < 128 THEN <<c>>
                        ELSE <<192 + (c \div 64), 128 + (c % 64)>>
    ELSE Utf8Encode(SubSeq(str, 1, Len(str) \div 2))
             \o Utf8Encode(SubSeq(str, Len(str) \div 2 + 1, Len(str)))

\* Whether bytes.decode('utf-8') accepts the bytes (it raises otherwise).
RECURSIVE Utf8Valid(_)
Utf8Valid(b) ==
    IF b = <<>> THEN TRUE
    ELSE IF b[1] < 128 THEN Utf8Valid(Tail(b))
    ELSE IF b[1] >= 194 /\ b[1] < 224 /\ Len(b) >= 2
            /\ b[2] >= 128 /\ b[2] < 192
         THEN Utf8Valid(Tail(Tail(b)))
         ELSE FALSE

\* bytes.decode('latin-1'): every byte is a code point
Utf8Decode_Latin1(b) == b

\* bytes.decode('utf-8') of valid bytes
RECURSIVE Utf8Decode(_)
Utf8Decode(b) ==
    IF b = <<>> THEN <<>>
    ELSE IF b[1] < 128 THEN <<b[1]>> \o Utf8Decode(Tail(b))
    ELSE <<(b[1] - 192) * 64 + (b[2] - 128)>> \o Utf8Decode(Tail(Tail(b)))

\* The C string a char* points at: the bytes before the first NUL.
RECURSIVE CString(_)
CString(b) ==
    IF b = <<>> \/ Head(b) = 0 THEN <<>>
    ELSE <<Head(b)>> \o CString(Tail(b))

-----------------------------------------------------------------------------
(* The native heap and the allocating primitives of the library            *)

NULL == 0

\* A cell malloc returns. `freedBy` lists the library functions that freed
\* it and `lateReads` counts the reads made of it after it was freed.
Cell(kind, content, next) ==
    [kind |-> kind, live |-> TRUE, freedBy |-> <<>>, lateReads |-> 0,
     content |-> content, next |-> next]

\* The cell once `fn` has freed it: dead, its content gone.
Freed(cell, fn) ==
    [cell EXCEPT !.live = FALSE, !.freedBy = Append(@, fn),
                 !.content = <<>>, !.next = NULL]

\* free(ptr) made by the library function `fn`; free(NULL) does nothing.
Free(h, ptr, fn) ==
    IF ptr = NULL THEN h ELSE [h EXCEPT ![ptr] = Freed(@, fn)]

\* A read through ptr: reading a freed cell is counted on the cell.
Read(h, ptr) ==
    IF h[ptr].live THEN h
    ELSE [h EXCEPT ![ptr] = [@ EXCEPT !.lateReads = @ + 1]]

\* string_concat(s1, s2): a new NUL-terminated buffer holding s1 then s2.
string_concat(h, s1, s2) ==
    [heap |-> Append(h, Cell("string", CString(s1) \o CString(s2) \o <<0>>,
                             NULL)),
     ptr |-> Len(h) + 1]

\* free_string(ptr)
free_string(h, ptr) == Free(h, ptr, "free_string")

\* allocate_array(size): a new array of `size` doubles, filled by the library.
allocate_array(h, size) ==
    [heap |-> Append(h, Cell("array", [size |-> size], NULL)),
     ptr |-> Len(h) + 1]

\* sum_array(arr, n) over an array the library filled: the sum of that fill.
sum_array_of_fill(h, ptr, n) == [fill_sum |-> n]

\* free_array(ptr)
free_array(h, ptr) == Free(h, ptr, "free_array")

\* create_list(size): `size` new nodes with payloads 0..size-1 in list order;
\* the head is NULL for size 0.
create_list(h, size) ==
    [heap |-> h \o [k \in 1..size |->
                       Cell("node", k - 1,
                            IF k = size THEN NULL ELSE Len(h) + k + 1)],
     ptr |-> IF size = 0 THEN NULL ELSE Len(h) + 1]

\* The walk of a list from `ptr` over 2^depth nodes at most, by halves: the
\* nodes visited, in list order, and where the walk stands.
RECURSIVE Walk(_, _, _)
Walk(h, ptr, depth) ==
    IF ptr = NULL THEN [visited |-> <<>>, at |-> NULL]
    ELSE IF depth = 0 THEN [visited |-> <<ptr>>, at |-> h[ptr].next]
    ELSE LET first == Walk(h, ptr, depth - 1)
             rest == Walk(h, first.at, depth - 1)
         IN  [visited |-> first.visited \o rest.visited, at |-> rest.at]

\* The nodes of the list at `ptr`, in list order: a list within a heap of n
\* cells is covered by a walk of the first depth with 2^depth >= n.
RECURSIVE WalkDepthFor(_, _)
WalkDepthFor(n, depth) ==
    IF depth >= WalkDepth \/ 2^depth >= n THEN depth
    ELSE WalkDepthFor(n, depth + 1)

ListNodes(h, ptr) == Walk(h, ptr, WalkDepthFor(Len(h), 0)).visited

\* x + y in a C int: [value, overflow], overflow telling that the sum left the
\* int range (the value is then its two's-complement wrap).
AddCInt(x, y) ==
    [value |-> Add32(x.value, y.value),
     overflow |-> \/ x.overflow
                  \/ y.overflow
                  \/ y.value >= 0 /\ x.value > INT_MAX - y.value
                  \/ y.value < 0 /\ x.value < INT_MIN - y.value]

\* The sum of the payloads of nodes[lo..hi], by halves.
RECURSIVE SumNodes(_, _, _, _)
SumNodes(h, nodes, lo, hi) ==
    IF lo > hi THEN [value |-> 0, overflow |-> FALSE]
    ELSE IF lo = hi THEN [value |-> h[nodes[lo]].content, overflow |-> FALSE]
    ELSE LET mid == (lo + hi) \div 2
         IN  AddCInt(SumNodes(h, nodes, lo, mid),
                     SumNodes(h, nodes, mid + 1, hi))

\* sum_list(head): the sum of the payloads, as a C int.
sum_list(h, head) ==
    LET nodes == ListNodes(h, head)
    IN  SumNodes(h, nodes, 1, Len(nodes))

\* The ints a call returning `r` can hand back: an int sum that overflowed is
\* undefined in C, so any int may come back (the wrapped sum on common
\* builds); whatever the library computes, restype c_int delivers an int.
CIntOutcomes(r) ==
    IF r.overflow THEN {r.value, INT_MIN, INT_MAX} ELSE {r.value}

\* The heap after sum_list(head) has read the nodes of the list.
sum_list_reads(h, head) ==
    IF head # NULL /\ ~h[head].live THEN Read(h, head) ELSE h

\* free_list(head): every node of the list is freed; free_list(NULL) does
\* nothing.
free_list(h, head) ==
    LET nodes == ListNodes(h, head)
        listed == [a \in {nodes[k] : k \in 1..Len(nodes)} |-> TRUE]
    IN  IF head = NULL THEN h
        ELSE [a \in 1..Len(h) |->
                 IF a \in DOMAIN listed THEN Freed(h[a], "free_list")
                                        ELSE h[a]]

-----------------------------------------------------------------------------
(* The owning wrappers of the ctypes adapter, statement by statement       *)

Event(op, ptr) == [op |-> op, ptr |-> ptr]

\* No wrapper running, nothing allocated.
MemIdle ==
    /\ heap = <<>>
    /\ wpc = "idle"
    /\ wloc = None
    /\ wret = None
    /\ wtrace = <<>>
    /\ ncalls = 0

\* No value-returning wrapper called yet.
PureIdle ==
    /\ pcall = None
    /\ pret = None

\* ct_string_concat, line 193: result_ptr = lib.string_concat(...)
StringConcatCall(s1, s2) ==
    /\ wpc = "idle"
    /\ LET r == string_concat(heap, Utf8Encode(s1), Utf8Encode(s2))
       IN  /\ heap' = r.heap
           /\ wloc' = [s1 |-> s1, s2 |-> s2, result_ptr |-> r.ptr]
           /\ wtrace' = <<Event("alloc", r.ptr)>>
    /\ wpc' = "sc_copy"
    /\ wret' = None
    /\ ncalls' = ncalls + 1
    /\ UNCHANGED <<harnessVars, pureVars>>

\* ct_string_concat, line 194: the buffer is copied up to its NUL and decoded
StringConcatCopy ==
    /\ wpc = "sc_copy"
    /\ heap' = Read(heap, wloc.result_ptr)
    /\ wtrace' = Append(wtrace, Event("read", wloc.result_ptr))
    /\ LET bytes == CString(heap[wloc.result_ptr].content)
       IN  IF heap[wloc.result_ptr].live /\ Utf8Valid(bytes)
           THEN /\ wloc' = [s1 |-> wloc.s1, s2 |-> wloc.s2,
                            result_ptr |-> wloc.result_ptr,
                            result |-> Utf8Decode(bytes)]
                /\ wpc' = "sc_free"
                /\ wret' = wret
           ELSE \* UnicodeDecodeError leaves the wrapper
                /\ wloc' = None
                /\ wpc' = "idle"
                /\ wret' = [raised |-> "UnicodeDecodeError"]
    /\ UNCHANGED ncalls
    /\ UNCHANGED <<harnessVars, pureVars>>

\* ct_string_concat, lines 195-196: lib.free_string(result_ptr); return result
StringConcatFree ==
    /\ wpc = "sc_free"
    /\ heap' = free_string(heap, wloc.result_ptr)
    /\ wtrace' = Append(wtrace, Event("free", wloc.result_ptr))
    /\ wret' = [value |-> wloc.result]
    /\ wloc' = None
    /\ wpc' = "idle"
    /\ UNCHANGED ncalls
    /\ UNCHANGED <<harnessVars, pureVars>>

\* ct_allocate_and_sum, lines 267-269: arr_ptr = lib.allocate_array(size) and
\* the numpy view of it (the view reads nothing)
AllocateAndSumCall(size) ==
    /\ wpc = "idle"
    /\ LET r == allocate_array(heap, size)
       IN  /\ heap' = r.heap
           /\ wloc' = [size |-> size, arr_ptr |-> r.ptr]
           /\ wtrace' = <<Event("alloc", r.ptr)>>
    /\ wpc' = "as_sum"
    /\ wret' = None
    /\ ncalls' = ncalls + 1
    /\ UNCHANGED <<harnessVars, pureVars>>

\* ct_allocate_and_sum summing the array only after it has released it
AllocateAndSumSum_AfterFree ==
    /\ wpc = "as_sum"
    /\ heap' = Read(free_array(heap, wloc.arr_ptr), wloc.arr_ptr)
    /\ wtrace' = wtrace \o <<Event("free", wloc.arr_ptr),
                               Event("read", wloc.arr_ptr)>>
    /\ wloc' = [size |-> wloc.size, arr_ptr |-> wloc.arr_ptr,
                total |-> sum_array_of_fill(heap, wloc.arr_ptr, wloc.size)]
    /\ wpc' = "as_free"
    /\ UNCHANGED <<wret, ncalls>>
    /\ UNCHANGED <<harnessVars, pureVars>>

\* ct_allocate_and_sum, line 270: total = lib.sum_array(arr, size)
AllocateAndSumSum ==
    /\ wpc = "as_sum"
    /\ heap' = Read(heap, wloc.arr_ptr)
    /\ wtrace' = Append(wtrace, Event("read", wloc.arr_ptr))
    /\ wloc' = [size |-> wloc.size, arr_ptr |-> wloc.arr_ptr,
                total |-> sum_array_of_fill(heap, wloc.arr_ptr, wloc.size)]
    /\ wpc' = "as_free"
    /\ UNCHANGED <<wret, ncalls>>
    /\ UNCHANGED <<harnessVars, pureVars>>

\* ct_allocate_and_sum, lines 271-272: lib.free_array(arr_ptr); return total
AllocateAndSumFree ==
    /\ wpc = "as_free"
    /\ heap' = free_array(heap, wloc.arr_ptr)
    /\ wtrace' = Append(wtrace, Event("free", wloc.arr_ptr))
    /\ wret' = [value |-> wloc.total]
    /\ wloc' = None
    /\ wpc' = "idle"
    /\ UNCHANGED ncalls
    /\ UNCHANGED <<harnessVars, pureVars>>

\* ct_list_operations, line 318: head = lib.create_list(size)
ListOperationsCall(size) ==
    /\ wpc = "idle"
    /\ LET r == create_list(heap, size)
       IN  /\ heap' = r.heap
           /\ wloc' = [size |-> size, head |-> r.ptr]
           /\ wtrace' = <<Event("alloc", r.ptr)>>
    /\ wpc' = "lo_sum"
    /\ wret' = None
    /\ ncalls' = ncalls + 1
    /\ UNCHANGED <<harnessVars, pureVars>>

\* ct_list_operations, line 319: total = lib.sum_list(head)
ListOperationsSum ==
    /\ wpc = "lo_sum"
    /\ heap' = sum_list_reads(heap, wloc.head)
    /\ wtrace' = Append(wtrace, Event("read", wloc.head))
    /\ \E total \in CIntOutcomes(sum_list(heap, wloc.head)) :
           wloc' = [size |-> wloc.size, head |-> wloc.head, total |-> total]
    /\ wpc' = "lo_free"
    /\ UNCHANGED <<wret, ncalls>>
    /\ UNCHANGED <<harnessVars, pureVars>>

\* ct_list_operations returning the total without releasing the list
ListOperationsFree_Leak ==
    /\ wpc = "lo_free"
    /\ wret' = [value |-> wloc.total]
    /\ wloc' = None
    /\ wpc' = "idle"
    /\ UNCHANGED <<heap, wtrace, ncalls>>
    /\ UNCHANGED <<harnessVars, pureVars>>

\* ct_list_operations, lines 320-321: lib.free_list(head); return total
ListOperationsFree ==
    /\ wpc = "lo_free"
    /\ heap' = free_list(heap, wloc.head)
    /\ wtrace' = Append(wtrace, Event("free", wloc.head))
    /\ wret' = [value |-> wloc.total]
    /\ wloc' = None
    /\ wpc' = "idle"
    /\ UNCHANGED ncalls
    /\ UNCHANGED <<harnessVars, pureVars>>

InitMem == HarnessIdle /\ MemIdle /\ PureIdle

NextMem ==
    \/ /\ ncalls < MaxCalls
       /\ \E s1 \in Strings, s2 \in Strings : StringConcatCall(s1, s2)
    \/ StringConcatCopy
    \/ StringConcatFree
    \/ /\ ncalls < MaxCalls
       /\ \E size \in 0..MaxArraySize : AllocateAndSumCall(size)
    \/ AllocateAndSumSum
    \/ AllocateAndSumFree
    \/ /\ ncalls < MaxCalls
       /\ \E size \in 0..MaxListSize : ListOperationsCall(size)
    \/ ListOperationsSum
    \/ ListOperationsFree

SpecMem == InitMem /\ [][NextMem]_vars

-----------------------------------------------------------------------------
(* 64-bit integers, as little-endian sequences of 16-bit limbs             *)

Limb == 2^16

\* a + b + carry on the limbs lo..hi of two limb sequences: the limbs of the
\* sum and the carry out, the low half of the limbs first
RECURSIVE AddFrom(_, _, _, _, _)
AddFrom(a, b, lo, hi, carry) ==
    IF lo = hi
    THEN LET sum == a[lo] + b[lo] + carry
         IN  [limbs |-> <<sum % Limb>>, carry |-> sum \div Limb]
    ELSE LET low == AddFrom(a, b, lo, (lo + hi) \div 2, carry)
             high == AddFrom(a, b, (lo + hi) \div 2 + 1, hi, low.carry)
         IN  [limbs |-> low.limbs \o high.limbs, carry |-> high.carry]

\* a + b on limb sequences of one length (two limbs at least), the carry out
\* of the top dropped
AddLimbs(a, b) ==
    IF Len(a) # Len(b) THEN <<>> ELSE AddFrom(a, b, 1, Len(a), 0).limbs

\* The non-negative int n on w limbs (w >= 2)
Limbs(n, w) == [k \in 1..w |-> IF k = 1 THEN n % Limb
                               ELSE IF k = 2 THEN n \div Limb ELSE 0]

\* A Python int of at most 64 bits: sign and magnitude.
PyInt(neg, mag) == [neg |-> neg, mag |-> mag]

\* The Python int a C long long converts to (restype c_longlong): the limbs
\* read as a two's-complement number.
FromCLongLong(x) ==
    IF x[4] < Limb \div 2 THEN PyInt(FALSE, x)
    ELSE PyInt(TRUE, AddLimbs([k \in 1..4 |-> Limb - 1 - x[k]], Limbs(1, 4)))

\* The Python int a C signed char converts to: the low byte, sign-extended.
FromCByte(x) ==
    LET byte == x[1] % 256
    IN  IF byte < 128 THEN PyInt(FALSE, Limbs(byte, 4))
        ELSE PyInt(TRUE, Limbs(256 - byte, 4))

\* The Python int a C int converts to: the low 32 bits, sign-extended.
FromCInt(x) ==
    IF x[2] < Limb \div 2 THEN PyInt(FALSE, <<x[1], x[2], 0, 0>>)
    ELSE PyInt(TRUE, AddLimbs(<<Limb - 1 - x[1], Limb - 1 - x[2], 0, 0>>,
                              Limbs(1, 4)))

\* The C int a Python int converts to (argtypes c_int): its low 32 bits, in
\* two's complement on two limbs.
ToCInt(n) == <<n % Limb, (n \div Limb) % Limb>>

\* The C unsigned int a non-negative Python int, given by its limbs, converts
\* to (argtypes c_uint): its low 32 bits.
ToCUInt(n) == <<n[1], n[2]>>

\* The C unsigned short it converts to: its low 16 bits.
ToCUShort(n) == <<n[1], 0>>

-----------------------------------------------------------------------------
(* The computational primitives of the library                             *)

\* add_numbers(a, b): the sum in an int, which wraps in 32 bits
add_numbers(a, b) == AddLimbs(a, b)

\* The loop  while (n) { count += n & 1; n >>= 1; }  on a 32-bit unsigned n,
\* from the state st = [n, count] and for k passes at most: the first half
\* of the passes, then the rest. The loop has ended once n is 0.
RECURSIVE PopcountLoop(_, _)
PopcountLoop(st, k) ==
    IF k = 1
    THEN IF st.n = <<0, 0>> THEN st
         ELSE [n |-> <<st.n[1] \div 2 + (st.n[2] % 2) * (Limb \div 2),
                       st.n[2] \div 2>>,
               count |-> st.count + (st.n[1] % 2)]
    ELSE LET first == PopcountLoop(st, k \div 2)
         IN  IF first.n = <<0, 0>> THEN first
             ELSE PopcountLoop(first, k - k \div 2)

\* popcount(n): the number of set bits of a 32-bit unsigned value, which
\* the loop has shifted out after 32 passes
popcount(n) == PopcountLoop([n |-> n, count |-> 0], 32).count

\* fibonacci_recursive(n): direct binary recursion in a long long
RECURSIVE fibonacci_recursive(_)
fibonacci_recursive(n) ==
    IF n <= 1 THEN Limbs(n, 4)
    ELSE AddLimbs(fibonacci_recursive(n - 1), fibonacci_recursive(n - 2))

\* k iterations of the loop  (a, b) := (b, a + b) : the first half of them,
\* then the rest (the test on r has the evaluator compute the first half
\* before it starts on the rest)
RECURSIVE FibSteps(_, _, _)
FibSteps(a, b, k) ==
    IF k = 0 THEN <<a, b>>
    ELSE IF k = 1 THEN <<b, AddLimbs(a, b)>>
    ELSE LET r == FibSteps(a, b, k \div 2)
         IN  IF Len(r[2]) # Len(r[1]) THEN r
             ELSE FibSteps(r[1], r[2], k - k \div 2)

\* The loop run on integers of w limbs: F(n) modulo 2^(16 w)
FibLoop(n, w) ==
    IF n <= 1 THEN Limbs(n, w)
    ELSE FibSteps(Limbs(0, w), Limbs(1, w), n - 1)[2]

\* fibonacci_iterative(n): the linear loop in a long long; past F(92) the sum
\* wraps in 64 bits.
fibonacci_iterative(n) == FibLoop(n, 4)

\* The trial divisions of n by d, d + 1, ... while d * d <= n
RECURSIVE TrialDivision(_, _)
TrialDivision(n, d) ==
    IF d * d > n THEN 1
    ELSE IF n % d = 0 THEN 0
    ELSE TrialDivision(n, d + 1)

\* is_prime(n): 1 or 0; nothing below 2 is prime.
is_prime(n) == IF n < 2 THEN 0 ELSE TrialDivision(n, 2)

\* count_primes(start, end): the loop over start, start + 1, ..., end that
\* adds is_prime of each; it runs no iteration when start > end. The sum of
\* the loop is formed by halves of the range.
RECURSIVE count_primes(_, _)
count_primes(start, end) ==
    IF start > end THEN 0
    ELSE IF start = end THEN is_prime(start)
    ELSE count_primes(start, (start + end) \div 2)
             + count_primes((start + end) \div 2 + 1, end)

-----------------------------------------------------------------------------
(* The marshalling primitives of the library                               *)

\* The buffer a c_char_p argument points at: the bytes object's bytes and
\* the NUL that follows them in memory.
CharP(bytes) == bytes \o <<0>>

\* The loop  while (s[len] != 0) len++  from len = lo over the bytes
\* s[lo] .. s[hi] (0-based): the first half of them, then the rest unless
\* the terminator was met. It gives len and whether the loop has ended.
RECURSIVE LengthLoop(_, _, _)
LengthLoop(s, lo, hi) ==
    IF lo = hi
    THEN IF s[lo + 1] = 0 THEN [len |-> lo, ended |-> TRUE]
                          ELSE [len |-> lo + 1, ended |-> FALSE]
    ELSE LET first == LengthLoop(s, lo, (lo + hi) \div 2)
         IN  IF first.ended THEN first
             ELSE LengthLoop(s, (lo + hi) \div 2 + 1, hi)

\* string_length(s): the number of bytes before the terminator of the
\* buffer s
string_length(s) == LengthLoop(s, 0, Len(s) - 1).len

\* process_datapoint(dp): dp.id * dp.value
process_datapoint(dp) == dp.id * dp.value

\* The loop  for (k = from; k < count; k++) sum += id * value of points[k]
RECURSIVE DatapointsLoop(_, _, _, _)
DatapointsLoop(points, count, k, sum) ==
    IF k >= count THEN sum
    ELSE DatapointsLoop(points, count, k + 1,
                        sum + process_datapoint(points[k + 1]))

\* sum_datapoints(points, count): 0.0 for count = 0
sum_datapoints(points, count) == DatapointsLoop(points, count, 0, 0)

-----------------------------------------------------------------------------
(* The array primitives of the library, over a caller's array of doubles.  *)
(* The doubles are small integers, which a double holds exactly, so every  *)
(* sum below is exact whatever the order of its additions.                 *)

\* arr with the elements at the 0-based indices j and k exchanged
Swap(arr, j, k) == [arr EXCEPT ![j + 1] = arr[k + 1], ![k + 1] = arr[j + 1]]

\* The loop of array_reverse from index k: arr[k] and arr[n-1-k] change
\* places while k is in the first half.
RECURSIVE ReverseLoop(_, _, _)
ReverseLoop(arr, n, k) ==
    IF k >= n \div 2 THEN arr
    ELSE ReverseLoop(Swap(arr, k, n - 1 - k), n, k + 1)

\* array_reverse(arr, n): in-place reversal of the first n elements
array_reverse(arr, n) == ReverseLoop(arr, n, 0)

\* The loop  for (; k < n; k += stride) sum += arr[k]
RECURSIVE SumLoop(_, _, _, _, _)
SumLoop(arr, n, stride, k, sum) ==
    IF k >= n THEN sum
    ELSE SumLoop(arr, n, stride, k + stride, sum + arr[k + 1])

\* sum_array(arr, n): linear reduction, 0.0 for an empty array
sum_array(arr, n) == SumLoop(arr, n, 1, 0, 0)

\* sum_strided(arr, n, stride): the sum of arr[0], arr[stride], ... below n
sum_strided(arr, n, stride) == SumLoop(arr, n, stride, 0, 0)

-----------------------------------------------------------------------------
(* The value-returning wrappers of the two adapters                        *)

\* ct_fibonacci_recursive with restype declared c_byte
ct_fibonacci_recursive_ByteRestype(n) == FromCByte(fibonacci_recursive(n))

\* ct_fibonacci_recursive(n): argtypes [c_int], restype c_longlong
ct_fibonacci_recursive(n) == FromCLongLong(fibonacci_recursive(n))

\* ct_fibonacci_iterative with restype left at the default c_int
ct_fibonacci_iterative_IntRestype(n) == FromCInt(fibonacci_iterative(n))

\* ct_fibonacci_iterative(n): argtypes [c_int], restype c_longlong
ct_fibonacci_iterative(n) == FromCLongLong(fibonacci_iterative(n))

\* cy_fibonacci_iterative(n): the Cython adapter returns the long long
cy_fibonacci_iterative(n) == FromCLongLong(fibonacci_iterative(n))

\* ct_is_prime with argtypes declared [c_ubyte]
ct_is_prime_UByteArg(n) == is_prime(n % 256)

\* ct_is_prime(n): argtypes [c_longlong], restype c_int
ct_is_prime(n) == is_prime(n)

\* ct_count_primes calling the library with the end of range(start, end)
ct_count_primes_ExclusiveEnd(start, end) == count_primes(start, end - 1)

\* ct_count_primes(start, end): argtypes [c_int, c_int], restype c_int
ct_count_primes(start, end) == count_primes(start, end)

\* ct_add_numbers with restype declared c_longlong: the int the library
\* returns is read as the low half of a 64-bit value
ct_add_numbers_LongLongRestype(a, b) ==
    FromCLongLong(add_numbers(ToCInt(a), ToCInt(b)) \o <<0, 0>>)

\* ct_add_numbers(a, b): argtypes [c_int, c_int], restype c_int
ct_add_numbers(a, b) == FromCInt(add_numbers(ToCInt(a), ToCInt(b)))

\* ct_sum_array(arr): the library is given len(arr)
ct_sum_array(arr) == sum_array(arr, Len(arr))

\* ct_array_reverse handing the library a copy of the caller's array
ct_array_reverse_OnCopy(arr) == arr

\* ct_array_reverse(arr): the caller's array after the call; the library
\* works in place on the array's own buffer and is given len(arr).
ct_array_reverse(arr) == array_reverse(arr, Len(arr))

\* ct_sum_strided leaving the stride out
ct_sum_strided_UnitStride(arr, stride) == sum_strided(arr, Len(arr), 1)

\* ct_sum_strided(arr, stride): the library is given len(arr) and the stride
ct_sum_strided(arr, stride) == sum_strided(arr, Len(arr), stride)

\* ct_string_length handing the library one unit per character of s
ct_string_length_CodePoints(s) == string_length(CharP(s))

\* ct_string_length(s): the UTF-8 bytes of s go to a c_char_p; restype c_int
ct_string_length(s) == string_length(CharP(Utf8Encode(s)))

\* DataPoint(): a zero-filled structure
NewDataPoint == [id |-> 0, value |-> 0, name |-> [k \in 1..NameCapacity |-> 0]]

\* Whether the assignment  dp.name = bytes  is accepted: ctypes raises
\* ValueError for more bytes than the field has.
NameFits(bytes) == Len(bytes) <= NameCapacity

\* The name field after  dp.name = bytes : the bytes are copied, and the NUL
\* that follows them too if there is room for it.
SetName(field, bytes) ==
    [k \in 1..NameCapacity |->
        IF k <= Len(bytes) THEN bytes[k]
        ELSE IF k = Len(bytes) + 1 THEN 0 ELSE field[k]]

\* The structure the wrappers fill from (id, value, name)
FillDataPoint(point) ==
    [id |-> point[1], value |-> point[2],
     name |-> SetName(NewDataPoint.name, Utf8Encode(point[3]))]

\* ct_process_datapoint(id, value, name), lines 201-207: the return value
\* and the structure the library was given
ct_process_datapoint(id, value, name) ==
    IF ~NameFits(Utf8Encode(name)) THEN [raised |-> "ValueError"]
    ELSE LET dp == FillDataPoint(<<id, value, name>>)
         IN  [value |-> process_datapoint(dp), passed |-> <<dp>>]

\* ct_sum_datapoints giving the library one element less than it filled
ct_sum_datapoints_ShortCount(points) ==
    IF \E k \in DOMAIN points : ~NameFits(Utf8Encode(points[k][3]))
    THEN [raised |-> "ValueError"]
    ELSE LET dp_array == [k \in DOMAIN points |-> FillDataPoint(points[k])]
         IN  [value |-> sum_datapoints(dp_array, Len(points) - 1),
              passed |-> dp_array]

\* ct_sum_datapoints(points), lines 212-220: the return value and the array
\* of structures the library was given
ct_sum_datapoints(points) ==
    IF \E k \in DOMAIN points : ~NameFits(Utf8Encode(points[k][3]))
    THEN [raised |-> "ValueError"]
    ELSE LET dp_array == [k \in DOMAIN points |-> FillDataPoint(points[k])]
         IN  [value |-> sum_datapoints(dp_array, Len(points)),
              passed |-> dp_array]

\* ct_popcount with argtypes declared [c_ushort]
ct_popcount_UShortArg(n) == popcount(ToCUShort(n))

\* ct_popcount(n): argtypes [c_uint], restype c_int
ct_popcount(n) == popcount(ToCUInt(n))

\* ct_list_operations(size) run on a fresh heap, with what its three library
\* calls did: the sum_list result before its conversion, the head, the number
\* of nodes on the list, whether their payloads run 0, 1, 2, ... in list
\* order, and the number of cells free_list released.
list_operations_run(size) ==
    LET made == create_list(<<>>, size)
        nodes == ListNodes(made.heap, made.ptr)
        after == free_list(made.heap, made.ptr)
    IN  [sum |-> sum_list(made.heap, made.ptr),
         head |-> made.ptr,
         nodes |-> Len(nodes),
         in_order |-> \A k \in 1..Len(nodes) :
                          made.heap[nodes[k]].content = k - 1,
         freed |-> Cardinality({a \in DOMAIN after : ~after[a].live})]

Call(fn, arg) == [fn |-> fn, arg |-> arg]

\* The call has been made and has not returned.
Pending == [pending |-> TRUE]

\* The interpreter calls wrapper `fn` with `arg`, the last call having
\* returned.
Invoke(fn, arg) ==
    /\ pret # Pending
    /\ pcall' = Call(fn, arg)
    /\ pret' = Pending
    /\ UNCHANGED <<harnessVars, memVars>>

\* The call of `fn` in progress
Running(fn) == pret = Pending /\ pcall.fn = fn

CtFibonacciRecursive ==
    /\ Running("ct_fibonacci_recursive")
    /\ pret' = [value |-> ct_fibonacci_recursive(pcall.arg)]
    /\ UNCHANGED pcall
    /\ UNCHANGED <<harnessVars, memVars>>

CtFibonacciIterative ==
    /\ Running("ct_fibonacci_iterative")
    /\ pret' = [value |-> ct_fibonacci_iterative(pcall.arg)]
    /\ UNCHANGED pcall
    /\ UNCHANGED <<harnessVars, memVars>>

CyFibonacciIterative ==
    /\ Running("cy_fibonacci_iterative")
    /\ pret' = [value |-> cy_fibonacci_iterative(pcall.arg)]
    /\ UNCHANGED pcall
    /\ UNCHANGED <<harnessVars, memVars>>

CtIsPrime ==
    /\ Running("ct_is_prime")
    /\ pret' = [value |-> ct_is_prime(pcall.arg)]
    /\ UNCHANGED pcall
    /\ UNCHANGED <<harnessVars, memVars>>

\* What ct_list_operations can return after `run`: the total is an int that
\* restype c_int hands back.
ListReturns(run) ==
    {[value |-> total, head |-> run.head, nodes |-> run.nodes,
      in_order |-> run.in_order, freed |-> run.freed] :
         total \in CIntOutcomes(run.sum)}

\* ct_list_operations(size)
CtListOperations ==
    /\ Running("ct_list_operations")
    /\ pret' \in ListReturns(list_operations_run(pcall.arg))
    /\ UNCHANGED pcall
    /\ UNCHANGED <<harnessVars, memVars>>

\* The arguments of test_fibonacci_iterative
FibTestInputs == {0, 1, 10, 100, 1000}

FibInputs == 0..MaxFibN \cup FibTestInputs

\* The sizes of test_list_operations
ListTestSizes == {10, 100, 1000}

\* The list sizes on either side of the point where n(n-1)/2 leaves the
\* range of a C int
LargeListSizes == {65536, 65537}

ListSizes == 0..MaxListSize \cup ListTestSizes \cup LargeListSizes

InitPure == HarnessIdle /\ MemIdle /\ PureIdle

NextPure ==
    \/ \E n \in 0..MaxFibN : Invoke("ct_fibonacci_recursive", n)
    \/ \E n \in FibInputs : Invoke("ct_fibonacci_iterative", n)
    \/ \E n \in FibInputs : Invoke("cy_fibonacci_iterative", n)
    \/ \E n \in -MaxPrimeN..MaxPrimeN : Invoke("ct_is_prime", n)
    \/ CtFibonacciRecursive
    \/ CtFibonacciIterative
    \/ CyFibonacciIterative
    \/ CtIsPrime
    \/ \E size \in ListSizes : Invoke("ct_list_operations", size)
    \/ CtListOperations

SpecPure == InitPure /\ [][NextPure]_vars

-----------------------------------------------------------------------------
(* The scalar and marshalling wrappers of the ctypes adapter, called one   *)
(* after another                                                           *)

CtCountPrimes ==
    /\ Running("ct_count_primes")
    /\ pret' = [value |-> ct_count_primes(pcall.arg[1], pcall.arg[2])]
    /\ UNCHANGED pcall
    /\ UNCHANGED <<harnessVars, memVars>>

\* The ranges of test_count_primes that the evaluator's stack can follow
CountTestRanges == {<<1, 10>>, <<1, 100>>}

CountRanges ==
    ((-MaxCountN..MaxCountN) \X (-MaxCountN..MaxCountN)) \cup CountTestRanges

CtAddNumbers ==
    /\ Running("ct_add_numbers")
    /\ pret' = [value |-> ct_add_numbers(pcall.arg[1], pcall.arg[2])]
    /\ UNCHANGED pcall
    /\ UNCHANGED <<harnessVars, memVars>>

\* The pairs of test_add_numbers
AddTestCases == {<<1, 2>>, <<100, 200>>, <<-5, 10>>, <<0, 0>>}

\* Operands around zero and at both ends of the range of a C int
AddOperands ==
    (-MaxAddN..MaxAddN) \cup {INT_MIN + k : k \in 0..MaxAddN}
                        \cup {INT_MAX - k : k \in 0..MaxAddN}

AddInputs == (AddOperands \X AddOperands) \cup AddTestCases

CtStringLength ==
    /\ Running("ct_string_length")
    /\ pret' = [value |-> ct_string_length(pcall.arg)]
    /\ UNCHANGED pcall
    /\ UNCHANGED <<harnessVars, memVars>>

\* Strings of test_string_length: "", "hello" and "x" * 100
LengthTestStrings ==
    {<<>>, <<104, 101, 108, 108, 111>>, [k \in 1..100 |-> 120]}

LengthStrings == StringsUpTo(MaxLengthStr) \cup LengthTestStrings

CtProcessDatapoint ==
    /\ Running("ct_process_datapoint")
    /\ pret' = ct_process_datapoint(pcall.arg[1], pcall.arg[2], pcall.arg[3])
    /\ UNCHANGED pcall
    /\ UNCHANGED <<harnessVars, memVars>>

CtSumDatapoints ==
    /\ Running("ct_sum_datapoints")
    /\ pret' = ct_sum_datapoints(pcall.arg)
    /\ UNCHANGED pcall
    /\ UNCHANGED <<harnessVars, memVars>>

\* The string of n characters c
Repeat(c, n) == [k \in 1..n |-> c]

\* Names of 'a' around the capacity of the field, and a name of two-byte
\* characters that fills it
PointNames ==
    {Repeat(97, n) : n \in {0, NameCapacity - 1, NameCapacity,
                            NameCapacity + 1}}
        \cup {Repeat(233, NameCapacity \div 2)}

PointIds == {-MaxPointId, MaxPointId}
PointValues == {1, MaxPointValue}

\* (id, value, name) as ct_process_datapoint takes them
Points == PointIds \X PointValues \X PointNames

\* The elements of the lists given to ct_sum_datapoints
SumPoints ==
    PointIds \X {MaxPointValue}
             \X {Repeat(97, n) : n \in {NameCapacity - 1, NameCapacity,
                                         NameCapacity + 1}}

RECURSIVE PointListsUpTo(_)
PointListsUpTo(n) ==
    IF n = 0 THEN {<<>>}
    ELSE LET shorter == PointListsUpTo(n - 1)
         IN  shorter \cup {Append(l, p) : l \in shorter, p \in SumPoints}

CtPopcount ==
    /\ Running("ct_popcount")
    /\ pret' = [value |-> ct_popcount(pcall.arg)]
    /\ UNCHANGED pcall
    /\ UNCHANGED <<harnessVars, memVars>>

\* Halves of 32-bit values: small ones, 0xFF, 0x8000, 0xAAAA and 0xFFFF
PopLimbs == 0..MaxPopLimb \cup {255, Limb \div 2, 43690, Limb - 1}

\* 32-bit unsigned values by their limbs, those of test_popcount (0, 1, 0xFF,
\* 0xFFFF, 0xFFFFFFFF) among them
PopInputs == PopLimbs \X PopLimbs

InitCalls == HarnessIdle /\ MemIdle /\ PureIdle

NextCalls ==
    \/ \E range \in CountRanges : Invoke("ct_count_primes", range)
    \/ CtCountPrimes
    \/ \E pair \in AddInputs : Invoke("ct_add_numbers", pair)
    \/ CtAddNumbers
    \/ \E s \in LengthStrings : Invoke("ct_string_length", s)
    \/ CtStringLength
    \/ \E point \in Points : Invoke("ct_process_datapoint", point)
    \/ CtProcessDatapoint
    \/ \E points \in PointListsUpTo(MaxPoints) :
           Invoke("ct_sum_datapoints", points)
    \/ CtSumDatapoints
    \/ \E n \in PopInputs : Invoke("ct_popcount", n)
    \/ CtPopcount

SpecCalls == InitCalls /\ [][NextCalls]_vars

-----------------------------------------------------------------------------
(* The array wrappers of the ctypes adapter, over one array of the caller  *)

\* The elements of the caller's arrays
Doubles == {1, 2, 4}

RECURSIVE ArraysUpTo(_)
ArraysUpTo(n) ==
    IF n = 0 THEN {<<>>}
    ELSE LET shorter == ArraysUpTo(n - 1)
         IN  shorter \cup {Append(a, x) : a \in shorter, x \in Doubles}

\* The caller makes a contiguous float64 array and keeps a copy of it, as
\* test_array_reverse does.
NewArray(values) ==
    /\ wpc = "idle"
    /\ wloc = None
    /\ heap = <<>>
    /\ heap' = <<Cell("ndarray", values, NULL)>>
    /\ wloc' = [arr |-> 1, original |-> values]
    /\ UNCHANGED <<wpc, wret, wtrace, ncalls>>
    /\ UNCHANGED <<harnessVars, pureVars>>

\* The caller holds an array.
HoldsArray == wpc = "idle" /\ wloc # None /\ heap # <<>>

\* ct_array_reverse(arr), lines 163-165: the array is reversed where it
\* lies; the wrapper returns nothing.
CtArrayReverse ==
    /\ HoldsArray
    /\ heap' = [heap EXCEPT ![wloc.arr].content = ct_array_reverse(@)]
    /\ wtrace' = Append(wtrace, Event("array_reverse", wloc.arr))
    /\ ncalls' = ncalls + 1
    /\ pcall' = Call("ct_array_reverse", wloc.arr)
    /\ pret' = [value |-> None]
    /\ UNCHANGED <<wpc, wloc, wret>>
    /\ UNCHANGED harnessVars

\* ct_sum_strided(arr, stride), lines 170-172
CtSumStrided(stride) ==
    /\ HoldsArray
    /\ wtrace' = Append(wtrace, Event("sum_strided", wloc.arr))
    /\ ncalls' = ncalls + 1
    /\ pcall' = Call("ct_sum_strided", stride)
    /\ pret' = [value |-> ct_sum_strided(heap[wloc.arr].content, stride)]
    /\ UNCHANGED <<heap, wpc, wloc, wret>>
    /\ UNCHANGED harnessVars

\* ct_sum_array(arr), lines 125-127
CtSumArray ==
    /\ HoldsArray
    /\ wtrace' = Append(wtrace, Event("sum_array", wloc.arr))
    /\ ncalls' = ncalls + 1
    /\ pcall' = Call("ct_sum_array", wloc.arr)
    /\ pret' = [value |-> ct_sum_array(heap[wloc.arr].content)]
    /\ UNCHANGED <<heap, wpc, wloc, wret>>
    /\ UNCHANGED harnessVars

InitArray == HarnessIdle /\ MemIdle /\ PureIdle

NextArray ==
    \/ \E values \in ArraysUpTo(MaxArrayLen) : NewArray(values)
    \/ /\ ncalls < MaxCalls
       /\ CtArrayReverse
    \/ /\ ncalls < MaxCalls
       /\ \E stride \in 1..MaxStride : CtSumStrided(stride)
    \/ /\ ncalls < MaxCalls
       /\ CtSumArray

SpecArray == InitArray /\ [][NextArray]_vars

\* The steps inside a running run_benchmark, with the elapsed time of a timed
\* call drawn from `elapsedTimes`.
RunSteps(elapsedTimes) ==
    \/ \E raised \in BOOLEAN :
           WarmupCall("cy_warmup", CYTHON_AVAILABLE, raised)
    \/ WarmupDone("cy_warmup", CYTHON_AVAILABLE, "ct_warmup")
    \/ \E raised \in BOOLEAN :
           WarmupCall("ct_warmup", CTYPES_AVAILABLE, raised)
    \/ WarmupDone("ct_warmup", CTYPES_AVAILABLE, "cy_timed")
    \/ \E raised \in BOOLEAN, e \in elapsedTimes :
           TimedCall("cy_timed", "cython", CYTHON_AVAILABLE, "ct_timed",
                     raised, e)
    \/ TimedDone("cy_timed", CYTHON_AVAILABLE, "ct_timed")
    \/ \E raised \in BOOLEAN, e \in elapsedTimes :
           TimedCall("ct_timed", "ctypes", CTYPES_AVAILABLE, "append",
                     raised, e)
    \/ TimedDone("ct_timed", CTYPES_AVAILABLE, "append")
    \/ FinishBenchmark

\* The steps inside a running run_memory_benchmark.
MemorySteps ==
    \/ MemorySkip("cy_memory", CYTHON_AVAILABLE, "ct_memory")
    \/ MemoryStart("cy_memory", CYTHON_AVAILABLE, "cy_memory_call")
    \/ \E raised \in BOOLEAN :
           MemoryCall("cy_memory_call", "cy_memory_stop", raised)
    \/ \E mem \in MemoryRecords :
           MemoryStop("cy_memory_stop", "cython", "ct_memory", mem)
    \/ MemorySkip("ct_memory", CTYPES_AVAILABLE, "mem_append")
    \/ MemoryStart("ct_memory", CTYPES_AVAILABLE, "ct_memory_call")
    \/ \E raised \in BOOLEAN :
           MemoryCall("ct_memory_call", "ct_memory_stop", raised)
    \/ \E mem \in MemoryRecords :
           MemoryStop("ct_memory_stop", "ctypes", "mem_append", mem)
    \/ FinishMemoryBenchmark

\* The calls a driver makes on the runner while it has made fewer than
\* `maxCalls` benchmark calls.
DriverCalls(maxCalls) ==
    \/ /\ Len(callLog) < maxCalls
       /\ \E n \in Names, c \in Categories, p \in ParamsChoices :
              RunBenchmark(n, c, p)
    \/ /\ Len(callLog) < maxCalls
       /\ \E n \in Names, c \in Categories : RunMemoryBenchmark(n, c)
    \/ SaveResults

\* A fresh runner of any loop counts within the bounds, one benchmark call.
Init == InitRunner(0..MaxIterations, 0..MaxWarmup) /\ MemIdle /\ PureIdle

Next == DriverCalls(1) \/ RunSteps(ElapsedTimes) \/ MemorySteps

Spec == Init /\ [][Next]_vars

\* A runner of one timed iteration and one warmup call, driven through a suite of
\* up to MaxRuns benchmark calls that each take one clock tick.
InitSuite == InitRunner({1}, {1}) /\ MemIdle /\ PureIdle

NextSuite == DriverCalls(MaxRuns) \/ RunSteps({1}) \/ MemorySteps

SpecSuite == InitSuite /\ [][NextSuite]_vars

\* The steps inside a running owning wrapper
WrapperSteps ==
    \/ StringConcatCopy
    \/ StringConcatFree
    \/ AllocateAndSumSum
    \/ AllocateAndSumFree
    \/ ListOperationsSum
    \/ ListOperationsFree

\* A runner of the longest timed loops within the bounds and of warmup loops
\* of several passes, with either adapter present or absent
InitLive == InitRunner({MaxIterations}, {LongWarmup}) /\ MemIdle /\ PureIdle

\* A session that calls an owning wrapper calls it once, before any benchmark
\* is run.
WrappersCallable ==
    /\ callLog = <<>>
    /\ ncalls = 0
    /\ CYTHON_AVAILABLE /\ CTYPES_AVAILABLE

\* One session of the process, run to its end: the runner makes one
\* run_benchmark call whose adapter calls all return (with a value or an
\* exception), or the owning wrappers are called directly. The harness and
\* the wrappers share no state, so the two kinds of session are followed one
\* at a time.
NextLive ==
    \/ /\ callLog = <<>>
       /\ ncalls = 0
       /\ \E n \in Names, c \in Categories :
              RunBenchmark(n, c, EmptyParams)
    \/ RunSteps({MaxElapsed})
    \/ /\ WrappersCallable
       /\ \E s1 \in Strings, s2 \in Strings : StringConcatCall(s1, s2)
    \/ /\ WrappersCallable
       /\ \E size \in 0..MaxArraySize : AllocateAndSumCall(size)
    \/ /\ WrappersCallable
       /\ \E size \in 0..MaxListSize : ListOperationsCall(size)
    \/ WrapperSteps

\* The interpreter goes on with a method that is running: a step of the
\* harness or of a wrapper that can be taken is taken. Every such step moves
\* the position of the method it belongs to.
FairLive ==
    /\ WF_<<pc, i>>(RunSteps({MaxElapsed}))
    /\ WF_wpc(WrapperSteps)

SpecLive == InitLive /\ [][NextLive]_vars /\ FairLive

-----------------------------------------------------------------------------
(* BenchmarkResult.add_timing, called on a result by any caller            *)

\* The labels a caller passes as `framework`: the two the runner passes
\* (lines 126, 139) and two that name no adapter.
FrameworkLabels == {"cython", "ctypes", "Cython", "numba"}

\* The results add_timing is called on: fresh from the constructor, with
\* params set (line 98), or with memory records stored (lines 180, 202).
TimingResults ==
    {BenchmarkResult(n, c) : n \in Names, c \in Categories}
        \cup {[BenchmarkResult("bench_a", "cat") EXCEPT
                  !.params = [keys |-> 1],
                  !.cython_memory = [current |-> 1, peak |-> 2,
                                     rss_delta |-> -1],
                  !.ctypes_memory = [current |-> 0, peak |-> 0,
                                     rss_delta |-> 0]]}

\* result = BenchmarkResult(...): the caller takes hold of a result.
NewResult(r) ==
    /\ pc = "idle"
    /\ result = None
    /\ result' = r
    /\ UNCHANGED <<CYTHON_AVAILABLE, CTYPES_AVAILABLE, iterations, warmup,
                   results, pc, i, calls, errors, callLog, saved>>
    /\ UNCHANGED <<memVars, pureVars, traceVars>>

\* result.add_timing(framework, elapsed_time)
AddTiming(framework, elapsed_time) ==
    /\ pc = "idle"
    /\ result # None
    /\ Len(result.cython_times) + Len(result.ctypes_times) < MaxSamples
    /\ result' = add_timing(result, framework, elapsed_time)
    /\ pcall' = Call("add_timing", <<framework, elapsed_time>>)
    /\ pret' = [value |-> None]
    /\ UNCHANGED <<CYTHON_AVAILABLE, CTYPES_AVAILABLE, iterations, warmup,
                   results, pc, i, calls, errors, callLog, saved>>
    /\ UNCHANGED <<memVars, traceVars>>

InitTiming == HarnessIdle /\ MemIdle /\ PureIdle

NextTiming ==
    \/ \E r \in TimingResults : NewResult(r)
    \/ \E f \in FrameworkLabels, t \in ElapsedTimes : AddTiming(f, t)

SpecTiming == InitTiming /\ [][NextTiming]_vars

-----------------------------------------------------------------------------
(* Claims about the harness                                                *)

Available(phase) ==
    IF phase \in {"cy_warmup", "cy_timed"} THEN CYTHON_AVAILABLE
                                           ELSE CTYPES_AVAILABLE
TimesOf(r, phase) ==
    IF phase = "cy_timed" THEN r.cython_times ELSE r.ctypes_times
\* The program positions after the timed loop of `phase`.
AfterTimed(phase) ==
    IF phase = "cy_timed" THEN pc \in {"ct_timed", "append"}
                          ELSE pc = "append"
InRun == pc \in Phases \cup {"append"}

\* C1 as stated: a failing timed call is skipped and the loop goes on with the
\* remaining iterations, so that after the loop of an available adapter all
\* N = iterations calls were made and k failures leave N - k samples.
C1_LoopContinuesAfterError ==
    \A phase \in {"cy_timed", "ct_timed"} :
        (AfterTimed(phase) /\ Available(phase)) =>
            /\ calls[phase] = iterations
            /\ Len(TimesOf(result, phase)) = iterations - errors[phase]

\* C1 as amended: a failing timed call is caught and logged (one error line),
\* records no sample, and ends the timed loop of that adapter: at most one
\* call of a loop fails, the loop is left at once, the calls after it are not
\* made, the samples are those of the calls before it, and the benchmark goes
\* on with the next phase.
C1_TimedErrorEndsLoop ==
    InRun =>
        \A phase \in {"cy_timed", "ct_timed"} :
            /\ errors[phase] <= 1
            /\ Len(TimesOf(result, phase)) = calls[phase] - errors[phase]
            /\ calls[phase] <= iterations
            /\ errors[phase] = 1 => AfterTimed(phase)
            /\ (AfterTimed(phase) /\ Available(phase) /\ errors[phase] = 0)
                   => calls[phase] = iterations

\* C1 witness: the first of two timed Cython calls failed; the run is at its
\* end with no Cython sample and the ctypes loop was still run.
C1_Witness ==
    /\ pc = "append"
    /\ iterations = 2
    /\ errors["cy_timed"] = 1
    /\ calls["cy_timed"] = 1
    /\ result.cython_times = <<>>
    /\ calls["ct_timed"] = 2

PhaseOrder == <<"cy_warmup", "ct_warmup", "cy_timed", "ct_timed">>
PhaseIndex(phase) == CHOOSE k \in 1..4 : PhaseOrder[k] = phase
\* Every warmup call of `phase` was made.
WarmupComplete(phase) ==
    calls[phase] = IF Available(phase) THEN warmup ELSE 0

\* C2: inside one run_benchmark the adapter calls come in the order Cython
\* warmup, ctypes warmup, Cython timed, ctypes timed: a step that makes a call
\* of one phase finds no call of a later phase made, and a timed call finds
\* every warmup call of both adapters made.
C2_PhaseOrder ==
    [][\A phase \in Phases :
           calls'[phase] = calls[phase] + 1 =>
               /\ \A later \in Phases :
                      PhaseIndex(later) > PhaseIndex(phase) => calls[later] = 0
               /\ phase = "ct_warmup" => WarmupComplete("cy_warmup")
               /\ phase \in {"cy_timed", "ct_timed"} =>
                      WarmupComplete("cy_warmup") /\ WarmupComplete("ct_warmup")
      ]_vars

\* C2 witness: a run in which all four phases made calls.
C2_Witness ==
    /\ pc = "append"
    /\ warmup = 1
    /\ iterations = 2
    /\ calls = [cy_warmup |-> 1, ct_warmup |-> 1, cy_timed |-> 2, ct_timed |-> 2]

\* C3: a saved record holds a speedup exactly when both adapters have a
\* sample, and the speedup is the ctypes mean divided by the Cython mean
\* (sum/len of the samples; with a Cython mean of 0 the float quotient is inf
\* or nan).
C3_Speedup ==
    saved # None =>
        \A k \in 1..Len(saved.results) :
            LET rec == saved.results[k]
                cy == results[k].cython_times
                ct == results[k].ctypes_times
            IN  /\ ("speedup" \in DOMAIN rec) <=> (cy # <<>> /\ ct # <<>>)
                /\ "speedup" \in DOMAIN rec =>
                       IF SumSeq(cy) > 0
                       THEN /\ IsFrac(rec.speedup)
                            /\ rec.speedup.num * (SumSeq(cy) * Len(ct))
                                   = rec.speedup.den * (SumSeq(ct) * Len(cy))
                            /\ rec.speedup.den # 0
                       ELSE rec.speedup = IF SumSeq(ct) > 0 THEN Inf ELSE NaN

\* C3 witness: a saved record whose ctypes mean is twice its Cython mean.
C3_Witness ==
    /\ saved # None
    /\ Len(saved.results) = 1
    /\ results[1].cython_times = <<0, 1>>
    /\ results[1].ctypes_times = <<1, 1>>
    /\ "speedup" \in DOMAIN saved.results[1]
    /\ FracEq(saved.results[1].speedup, Frac(2, 1))

\* C4: save_results writes one record per benchmark call made, in call order,
\* each with name, category, params and the two statistics fields, a
\* statistics field being null exactly when the adapter has no sample.
C4_SavedRecords ==
    [][saved' # saved =>
           /\ Len(saved'.results) = Len(callLog)
           /\ \A k \in 1..Len(saved'.results) :
                  LET rec == saved'.results[k]
                  IN  /\ {"name", "category", "params", "cython", "ctypes"}
                             \subseteq DOMAIN rec
                      /\ rec.name = callLog[k]
                      /\ rec.name = results[k].name
                      /\ rec.category = results[k].category
                      /\ rec.params = results[k].params
                      /\ (rec.cython = None) <=> (results[k].cython_times = <<>>)
                      /\ (rec.ctypes = None) <=> (results[k].ctypes_times = <<>>)
      ]_vars

\* C4 witness: a file of two records in call order, the first of a timed
\* benchmark with samples of both adapters, the second of a memory benchmark.
C4_Witness ==
    /\ saved # None
    /\ Len(saved.results) = 2
    /\ callLog = <<"bench_b", "bench_a">>
    /\ saved.results[1].name = "bench_b"
    /\ saved.results[2].name = "bench_a"
    /\ saved.results[1].cython # None
    /\ saved.results[1].ctypes # None
    /\ saved.results[2].cython = None
    /\ "cython_memory" \in DOMAIN saved.results[2]

-----------------------------------------------------------------------------
(* Ownership of the allocations the library hands to the ctypes adapter    *)

\* The free function that matches the allocator of a cell.
MatchingFree(kind) ==
    CASE kind = "string" -> "free_string"
      [] kind = "array" -> "free_array"
      [] kind = "node" -> "free_list"

Cells == DOMAIN heap

\* C5: whenever no wrapper is running, every allocation the library has
\* handed to ct_string_concat, ct_allocate_and_sum or ct_list_operations has
\* been released by exactly one call, made to its matching free function:
\* none is live and none was freed twice.
C5_FreedExactlyOnce ==
    wpc = "idle" =>
        \A a \in Cells :
            /\ ~heap[a].live
            /\ heap[a].freedBy = <<MatchingFree(heap[a].kind)>>

\* Two wrapper calls have returned, one of them over a list of several nodes,
\* the other over a string or an array.
C5_Witness ==
    /\ wpc = "idle"
    /\ ncalls >= 2
    /\ Cardinality({a \in Cells : heap[a].kind = "node"}) >= 2
    /\ \E a \in Cells : heap[a].kind # "node"
    /\ \A a \in Cells : heap[a].freedBy # <<>>

\* C6: in every owning wrapper the read of the library's allocation (the copy
\* of the string bytes, the sum over the array view, the traversal of the
\* list) is made before the free call on it: no cell is ever read after it
\* was freed, and no read follows the free in the wrapper's calls.
C6_ReadsBeforeFree ==
    /\ \A a \in Cells : heap[a].lateReads = 0
    /\ \A j \in DOMAIN wtrace, k \in DOMAIN wtrace :
           (/\ wtrace[j].op = "free"
            /\ wtrace[k].op = "read"
            /\ wtrace[j].ptr = wtrace[k].ptr) => k < j

\* A wrapper has read a non-empty allocation and then freed it.
C6_Witness ==
    /\ wpc = "idle"
    /\ Len(wtrace) = 3
    /\ wtrace[2].op = "read" /\ wtrace[3].op = "free"
    /\ wtrace[2].ptr # NULL /\ wtrace[3].ptr = wtrace[2].ptr
    /\ heap[wtrace[3].ptr].freedBy # <<>>
    /\ wret # None

-----------------------------------------------------------------------------
(* The list primitives through ct_list_operations                          *)

\* total = n(n-1)/2, told without forming the product
IsTriangular(total, n) ==
    LET a == IF n % 2 = 0 THEN n \div 2 ELSE n
        b == IF n % 2 = 0 THEN n - 1 ELSE (n - 1) \div 2
    IN  IF n <= 1 THEN total = 0
        ELSE total % b = 0 /\ total \div b = a

\* The call of `fn` has returned.
Returned(fn) == pcall # None /\ pcall.fn = fn /\ pret # Pending

\* C7 as stated: for every size n >= 0 the list made by create_list(n) holds
\* n nodes with payloads 0..n-1 in list order and sum_list returns n(n-1)/2;
\* for n = 0 the head is null, the sum is 0 and free_list changes nothing.
C7_SumIsTriangular ==
    Returned("ct_list_operations") =>
        /\ IsTriangular(pret.value, pcall.arg)
        /\ pret.nodes = pcall.arg
        /\ pret.in_order
        /\ pcall.arg = 0 =>
               pret.head = NULL /\ pret.value = 0 /\ pret.freed = 0

\* The list of 65537 nodes, payloads in order, has been summed: the sum,
\* 2147516416, is not an int, and another total has come back.
C7_Witness ==
    /\ Returned("ct_list_operations")
    /\ pcall.arg = 65537
    /\ pret.nodes = 65537
    /\ pret.in_order
    /\ ~IsTriangular(pret.value, pcall.arg)

-----
(* The Fibonacci functions and is_prime through the adapters               *)

\* F(n), by its defining recurrence
RECURSIVE Fib(_)
Fib(n) == IF n = 0 THEN 0 ELSE IF n = 1 THEN 1 ELSE Fib(n - 1) + Fib(n - 2)

\* C8: for every n of the validated domain (0..MaxFibN here) the iterative
\* and the recursive function return the same number through the adapter,
\* and that number is F(n), F(0) = 0, F(1) = 1, F(n) = F(n-1) + F(n-2).
C8_FibonacciAgree ==
    (/\ Returned("ct_fibonacci_iterative") \/ Returned("ct_fibonacci_recursive")
     /\ pcall.arg <= MaxFibN) =>
        /\ pret.value = PyInt(FALSE, Limbs(Fib(pcall.arg), 4))
        /\ pret.value = ct_fibonacci_iterative(pcall.arg)
        /\ pret.value = ct_fibonacci_recursive(pcall.arg)

\* Both functions have been seen to return F(15) = 610.
C8_Witness ==
    /\ Returned("ct_fibonacci_iterative")
    /\ pcall.arg = 15
    /\ pret.value = PyInt(FALSE, Limbs(610, 4))
    /\ ct_fibonacci_recursive(15) = pret.value

\* F(n) exactly, on ExactLimbs limbs
ExactFib(n) == FibLoop(n, ExactLimbs)

\* F(n) is below 2^63.
FitsInt64(n) ==
    LET e == ExactFib(n)
    IN  e[4] < Limb \div 2 /\ \A k \in 5..ExactLimbs : e[k] = 0

\* A Python int within the range of a signed 64-bit integer
InInt64Range(x) ==
    \/ x.mag[4] < Limb \div 2
    \/ x.neg /\ x.mag = <<0, 0, 0, Limb \div 2>>

IsPrimeNumber(n) == n >= 2 /\ \A d \in 2..(n - 1) : n % d # 0

\* C10: is_prime(n) is true exactly when n is prime: false for 0, 1 and
\* every negative n, and for n >= 2 true exactly when no d with 2 <= d and
\* d * d <= n divides n.
C10_IsPrimeExact ==
    Returned("ct_is_prime") =>
        LET n == pcall.arg
            answer == pret.value # 0
        IN  /\ answer <=> IsPrimeNumber(n)
            /\ n < 2 => ~answer
            /\ n >= 2 =>
                   (answer <=> \A d \in 2..n : d * d <= n => n % d # 0)

\* is_prime has answered true for the prime 17, and false for -17.
C10_Witness ==
    /\ Returned("ct_is_prime")
    /\ pcall.arg = 17
    /\ pret.value = 1
    /\ ct_is_prime(-17) = 0

-----------------------------------------------------------------------------
\* C11: ct_count_primes(start, end) returns the number of primes n with
\* start <= n <= end, both ends counted, and 0 when start > end.
C11_CountPrimesInclusive ==
    Returned("ct_count_primes") =>
        LET start == pcall.arg[1]
            end == pcall.arg[2]
        IN  /\ pret.value
                  = Cardinality({n \in start..end : IsPrimeNumber(n)})
            /\ start > end => pret.value = 0

\* The range 2..7, which ends on a prime, has returned 4; the inverted range
\* of the specification's example gives 0.
C11_Witness ==
    /\ Returned("ct_count_primes")
    /\ pcall.arg = <<2, 7>>
    /\ pret.value = 4
    /\ ct_count_primes(5, 2) = 0

-----------------------------------------------------------------------------
\* The int a Python int of at most 32 bits stands for
IntOf(p) ==
    IF p.neg THEN (-p.mag[2]) * Limb - p.mag[1]
             ELSE p.mag[2] * Limb + p.mag[1]

\* The Python int lies in the range of a 32-bit signed integer.
InInt32Range(p) ==
    /\ p.mag[3] = 0
    /\ p.mag[4] = 0
    /\ \/ p.mag[2] < Limb \div 2
       \/ p.neg /\ p.mag[2] = Limb \div 2 /\ p.mag[1] = 0

\* C12: ct_add_numbers(a, b) on 32-bit signed a and b returns a + b reduced
\* to the 32-bit signed range by two's-complement wrap-around, and never a
\* value outside that range.
C12_AddWraps ==
    Returned("ct_add_numbers") =>
        /\ InInt32Range(pret.value)
        /\ IntOf(pret.value) = Add32(pcall.arg[1], pcall.arg[2])

\* INT_MAX + 1 has returned INT_MIN.
C12_Witness ==
    /\ Returned("ct_add_numbers")
    /\ pcall.arg = <<INT_MAX, 1>>
    /\ pret.value = PyInt(TRUE, <<0, Limb \div 2, 0, 0>>)

-----------------------------------------------------------------------------
\* The array read backwards
Backwards(arr) == [k \in 1..Len(arr) |-> arr[Len(arr) + 1 - k]]

\* The number of calls of ct_array_reverse made on the caller's array
Reversals == Cardinality({k \in DOMAIN wtrace : wtrace[k].op = "array_reverse"})

\* C13: after ct_array_reverse the caller's array is the original read
\* backwards (new arr[k] = old arr[n-1-k]), and after two calls it is the
\* original again, for every length including 0 and 1.
C13_ReverseInvolution ==
    HoldsArray =>
        LET arr == heap[wloc.arr].content
        IN  /\ Reversals % 2 = 1 => arr = Backwards(wloc.original)
            /\ Reversals % 2 = 0 => arr = wloc.original

\* An array of three elements that differs from its reversal has been
\* reversed twice.
C13_Witness ==
    /\ HoldsArray
    /\ Reversals = 2
    /\ wloc.original = <<1, 2, 4>>
    /\ heap[wloc.arr].content = <<1, 2, 4>>

-----------------------------------------------------------------------------
\* The sum of the elements of arr at the 0-based indices in `indices`
RECURSIVE SumAt(_, _)
SumAt(arr, indices) ==
    IF indices = {} THEN 0
    ELSE LET k == CHOOSE x \in indices : TRUE
         IN  arr[k + 1] + SumAt(arr, indices \ {k})

\* C14: ct_sum_strided(arr, stride) with stride >= 1 returns the sum of
\* arr[k] over exactly the indices k < n that are multiples of stride; with
\* stride 1 that is sum_array, with stride >= n > 0 it is arr[0], and it is 0
\* for n = 0.
C14_SumStrided ==
    Returned("ct_sum_strided") =>
        LET arr == heap[wloc.arr].content
            n == Len(arr)
            stride == pcall.arg
        IN  /\ pret.value
                  = SumAt(arr, {k \in 0..(n - 1) : k % stride = 0})
            /\ stride = 1 => pret.value = ct_sum_array(arr)
            /\ stride >= n /\ n > 0 => pret.value = arr[1]
            /\ n = 0 => pret.value = 0

\* A stride of 2 over three elements has summed the first and the third.
C14_Witness ==
    /\ Returned("ct_sum_strided")
    /\ pcall.arg = 2
    /\ heap[wloc.arr].content = <<1, 2, 4>>
    /\ pret.value = 5

-----------------------------------------------------------------------------
\* The string holds no NUL character.
NoNul(str) == \A k \in DOMAIN str : str[k] # 0

\* C15: for strings s1 and s2 without embedded NUL, ct_string_concat(s1, s2)
\* returns (it does not raise) exactly s1 followed by s2: the length of the
\* result is len(s1) + len(s2), and with s1 empty the result is s2.
C15_ConcatExact ==
    [][(wpc \in {"sc_copy", "sc_free"} /\ wpc' # wpc
           /\ NoNul(wloc.s1) /\ NoNul(wloc.s2)) =>
          IF wpc = "sc_copy" THEN wpc' = "sc_free"
          ELSE /\ wret'.value = wloc.s1 \o wloc.s2
               /\ Len(wret'.value) = Len(wloc.s1) + Len(wloc.s2)
               /\ wloc.s1 = <<>> => wret'.value = wloc.s2]_vars

\* ct_string_concat has returned the two characters of "a" and e-acute, the
\* second of which takes two bytes in the library's buffer.
C15_Witness ==
    /\ wpc = "idle"
    /\ Len(wtrace) = 3
    /\ wtrace[1].ptr # NULL
    /\ heap[wtrace[1].ptr].kind = "string"
    /\ wret = [value |-> <<97, 233>>]

-----------------------------------------------------------------------------
\* The number of bytes UTF-8 takes for the characters of str
RECURSIVE ByteCount(_)
ByteCount(str) ==
    IF str = <<>> THEN 0
    ELSE (IF Head(str) < 128 THEN 1 ELSE 2) + ByteCount(Tail(str))

\* The position of the first NUL of the buffer
FirstNul(buffer) ==
    CHOOSE k \in DOMAIN buffer :
        buffer[k] = 0 /\ \A j \in 1..(k - 1) : buffer[j] # 0

\* C16: ct_string_length(s) returns the number of bytes of the UTF-8 encoding
\* of s that lie before the terminator of the buffer passed to the library,
\* which is the byte count of s and not its number of code points; the empty
\* string has length 0.
C16_ByteLength ==
    Returned("ct_string_length") =>
        LET s == pcall.arg
        IN  /\ pret.value = FirstNul(Utf8Encode(s) \o <<0>>) - 1
            /\ NoNul(s) => pret.value = ByteCount(s)
            /\ s = <<>> => pret.value = 0

\* A string of two characters, one of them of two bytes, has length 3.
C16_Witness ==
    /\ Returned("ct_string_length")
    /\ pcall.arg = <<233, 97>>
    /\ Len(pcall.arg) = 2
    /\ pret.value = 3

-----------------------------------------------------------------------------
\* The wrapper has returned a value (it has not raised).
ReturnedValue(fn) == Returned(fn) /\ "value" \in DOMAIN pret

\* The sum of id * value over the points from the k-th on
RECURSIVE SumOfProducts(_, _)
SumOfProducts(points, k) ==
    IF k > Len(points) THEN 0
    ELSE points[k][1] * points[k][2] + SumOfProducts(points, k + 1)

\* C17: ct_sum_datapoints over count DataPoints returns the sum of id * value
\* over the elements: 0.0 for count = 0 and, for one element, what
\* ct_process_datapoint returns for that element; ct_process_datapoint
\* returns id * value.
C17_SumDatapoints ==
    /\ ReturnedValue("ct_sum_datapoints") =>
           LET points == pcall.arg
           IN  /\ pret.value = SumOfProducts(points, 1)
               /\ Len(points) = 0 => pret.value = 0
               /\ Len(points) = 1 =>
                      pret.value = ct_process_datapoint(points[1][1],
                                       points[1][2], points[1][3]).value
    /\ ReturnedValue("ct_process_datapoint") =>
           pret.value = pcall.arg[1] * pcall.arg[2]

\* The sum over two points has returned twice the product of one, and the
\* sum over no point is 0.
C17_Witness ==
    /\ ReturnedValue("ct_sum_datapoints")
    /\ Len(pcall.arg) = 2
    /\ pcall.arg[1][1] = MaxPointId
    /\ pcall.arg[2][1] = MaxPointId
    /\ pret.value = 2 * MaxPointId * MaxPointValue
    /\ ct_sum_datapoints(<<>>).value = 0

-----------------------------------------------------------------------------
\* The name field holds a terminator.
Terminated(name) == \E k \in DOMAIN name : name[k] = 0

\* C18 as stated: every DataPoint that ct_process_datapoint or
\* ct_sum_datapoints gives the library has a name field of 32 bytes that holds
\* a terminator; a name of 32 or more encoded bytes is never passed to the
\* library unterminated.
C18_NamesTerminated ==
    (\/ ReturnedValue("ct_process_datapoint")
     \/ ReturnedValue("ct_sum_datapoints")) =>
        \A k \in DOMAIN pret.passed :
            /\ Len(pret.passed[k].name) = NameCapacity
            /\ Terminated(pret.passed[k].name)

\* ct_process_datapoint has given the library a name of exactly 32 bytes,
\* with no terminator in the field.
C18_Witness ==
    /\ ReturnedValue("ct_process_datapoint")
    /\ Len(Utf8Encode(pcall.arg[3])) = NameCapacity
    /\ ~Terminated(pret.passed[1].name)

-----------------------------------------------------------------------------
\* The number of 1 bits of a 16-bit limb
LimbBits(x) == Cardinality({k \in 0..15 : (x \div 2^k) % 2 = 1})

\* n XOR 0xFFFFFFFF
Complement(n) == <<Limb - 1 - n[1], Limb - 1 - n[2]>>

\* C19: ct_popcount(n) returns the number of 1 bits of the 32-bit unsigned n:
\* it lies in 0..32, is 0 for 0 and 32 for 0xFFFFFFFF, and with the popcount
\* of n XOR 0xFFFFFFFF it adds up to 32.
C19_Popcount ==
    Returned("ct_popcount") =>
        LET n == pcall.arg
        IN  /\ pret.value = LimbBits(n[1]) + LimbBits(n[2])
            /\ pret.value \in 0..32
            /\ n = <<0, 0>> => pret.value = 0
            /\ n = <<Limb - 1, Limb - 1>> => pret.value = 32
            /\ pret.value + ct_popcount(Complement(n)) = 32

\* popcount of 0xFFFFFFFF has returned 32.
C19_Witness ==
    /\ Returned("ct_popcount")
    /\ pcall.arg = <<Limb - 1, Limb - 1>>
    /\ pret.value = 32
    /\ ct_popcount(<<0, 0>>) = 0

-----------------------------------------------------------------------------
\* The adapter calls made so far by the running run_benchmark
AdapterCalls ==
    calls["cy_warmup"] + calls["ct_warmup"] + calls["cy_timed"]
        + calls["ct_timed"]

\* C21: with adapter calls that all return, run_benchmark makes at most
\* 2*warmup + 2*iterations adapter calls and then returns, and a running
\* owning wrapper (ct_string_concat, ct_allocate_and_sum, ct_list_operations)
\* takes its allocate/use/free steps to its end.
C21_Terminates ==
    /\ [](AdapterCalls <= 2 * warmup + 2 * iterations)
    /\ (pc # "idle") ~> (pc = "idle" /\ Len(results) = 1)
    /\ (wpc # "idle") ~> (wpc = "idle")

\* A run of all 2*warmup + 2*iterations calls, none of them failing, has
\* returned.
C21_Witness ==
    /\ pc = "idle"
    /\ Len(results) = 1
    /\ warmup = LongWarmup
    /\ iterations = MaxIterations
    /\ AdapterCalls = 2 * LongWarmup + 2 * MaxIterations

\* The samples an adapter has in the result `r`
SampleCount(r, phase) == Len(TimesOf(r, phase))

\* C22: the result run_benchmark returns with holds at most `iterations`
\* samples of each adapter, and exactly `iterations` of an available adapter
\* none of whose timed calls raised; a warmup call adds no sample (only a
\* timed call that returned adds one, to its own adapter).
C22_SampleCounts ==
    [][/\ (pc = "append" /\ pc' = "idle") =>
              \A phase \in {"cy_timed", "ct_timed"} :
                  LET n == SampleCount(results'[Len(results')], phase)
                  IN  /\ n <= iterations
                      /\ (Available(phase) /\ errors[phase] = 0)
                             => n = iterations
                      /\ ~Available(phase) => n = 0
       /\ \A phase \in {"cy_warmup", "ct_warmup"} :
              calls'[phase] = calls[phase] + 1 =>
                  /\ result'.cython_times = result.cython_times
                  /\ result'.ctypes_times = result.ctypes_times
      ]_vars

\* C22 witness: a run with warmup calls, one of them failing, has returned
\* with all `iterations` samples of both adapters.
C22_Witness ==
    /\ pc = "idle"
    /\ Len(results) = 1
    /\ iterations = MaxIterations
    /\ warmup = MaxWarmup
    /\ calls["cy_warmup"] = MaxWarmup
    /\ errors["cy_warmup"] >= 1
    /\ errors["cy_timed"] = 0
    /\ errors["ct_timed"] = 0
    /\ SampleCount(results[1], "cy_timed") = MaxIterations
    /\ SampleCount(results[1], "ct_timed") = MaxIterations

\* C23: an exception of a timed Cython call leaves the ctypes measurement as
\* it would have been. The failing step changes no sample of either adapter;
\* the ctypes timed loop is then run, and the Cython samples stand while it
\* runs; at the end of the run the Cython samples are those of the calls
\* before the failure and, the ctypes adapter being available and not failing
\* itself, the ctypes loop made all `iterations` calls and holds `iterations`
\* samples (none where the adapter is unavailable).
C23_FailureIsolated ==
    /\ [][/\ errors'["cy_timed"] = errors["cy_timed"] + 1 =>
                 /\ result' = result
                 /\ calls'["ct_timed"] = 0
                 /\ pc' = "ct_timed"
          /\ (pc = "ct_timed" /\ pc' \in {"ct_timed", "append"}) =>
                 result'.cython_times = result.cython_times
         ]_vars
    /\ [](pc = "append" /\ errors["cy_timed"] = 1 =>
             /\ Len(result.cython_times) = calls["cy_timed"] - 1
             /\ (CTYPES_AVAILABLE /\ errors["ct_timed"] = 0) =>
                    /\ calls["ct_timed"] = iterations
                    /\ Len(result.ctypes_times) = iterations
             /\ ~CTYPES_AVAILABLE => result.ctypes_times = <<>>)

\* C23 witness: the second timed Cython call failed; the run ends with the
\* one Cython sample taken before it and every ctypes sample.
C23_Witness ==
    /\ pc = "append"
    /\ iterations = MaxIterations
    /\ errors["cy_timed"] = 1
    /\ calls["cy_timed"] = 2
    /\ Len(result.cython_times) = 1
    /\ errors["ct_timed"] = 0
    /\ calls["ct_timed"] = MaxIterations
    /\ Len(result.ctypes_times) = MaxIterations

\* C24: an exception of a warmup call does not end anything: the failing
\* step changes no sample and goes on to the next pass of the same loop, and
\* at the end of the run every warmup call of both available adapters was
\* made, whatever failed among them, and each timed loop of an available
\* adapter that saw no exception itself made all its calls.
C24_WarmupErrorTolerated ==
    /\ [][\A phase \in {"cy_warmup", "ct_warmup"} :
              errors'[phase] = errors[phase] + 1 =>
                  /\ pc' = pc
                  /\ i' = i + 1
                  /\ calls'[phase] = i'
                  /\ result' = result
         ]_vars
    /\ [](pc = "append" =>
             /\ WarmupComplete("cy_warmup")
             /\ WarmupComplete("ct_warmup")
             /\ \A phase \in {"cy_timed", "ct_timed"} :
                    (Available(phase) /\ errors[phase] = 0) =>
                        /\ calls[phase] = iterations
                        /\ SampleCount(result, phase) = iterations)

\* C24 witness: the first warmup call of Cython failed; the second was made,
\* then the warmup calls of ctypes and every timed call of both adapters.
C24_Witness ==
    /\ pc = "append"
    /\ warmup = LongWarmup
    /\ errors["cy_warmup"] = LongWarmup
    /\ calls["cy_warmup"] = LongWarmup
    /\ calls["ct_warmup"] = LongWarmup
    /\ calls["cy_timed"] = iterations
    /\ calls["ct_timed"] = iterations
    /\ iterations = MaxIterations
    /\ SampleCount(result, "cy_timed") = MaxIterations
    /\ SampleCount(result, "ct_timed") = MaxIterations

\* The benchmark calls that have returned
CallsReturned == IF pc = "idle" THEN Len(callLog) ELSE Len(callLog) - 1

\* C25: every call of run_benchmark or run_memory_benchmark that has returned
\* has appended one result, failures or not: k returned calls leave k results,
\* the k-th being that of the k-th call; a step changes runner.results only by
\* appending one result at its end.
C25_ResultsAppendOnly ==
    /\ [](/\ Len(results) = CallsReturned
          /\ \A k \in 1..Len(results) : results[k].name = callLog[k])
    /\ [][results' # results =>
              /\ Len(results') = Len(results) + 1
              /\ SubSeq(results', 1, Len(results)) = results
              /\ pc' = "idle"
         ]_vars

\* C25 witness: two calls have returned, a run_benchmark whose Cython timed call
\* raised and then a run_memory_benchmark; their results stand in that order.
C25_Witness ==
    /\ pc = "idle"
    /\ callLog = <<"bench_b", "bench_a">>
    /\ Len(results) = 2
    /\ results[1].name = "bench_b"
    /\ results[1].cython_times = <<>>
    /\ results[1].ctypes_times # <<>>
    /\ results[2].name = "bench_a"
    /\ results[2].ctypes_memory # None

\* The tracemalloc calls of the running run_memory_benchmark, in order
TraceCalls == SelectSeq(tracelog, LAMBDA e : e \in {"start", "stop"})

\* The adapters that are available
AvailableAdapters ==
    (IF CYTHON_AVAILABLE THEN 1 ELSE 0) + (IF CTYPES_AVAILABLE THEN 1 ELSE 0)

\* A memory record as run_memory_benchmark stores it
IsMemoryRecord(m) == DOMAIN m = {"current", "peak", "rss_delta"}

\* C28: in run_memory_benchmark the calls of tracemalloc.start and
\* tracemalloc.stop alternate, a start first: the tracing is on exactly
\* between a start and its stop, each measured call lies between the two,
\* whether it returns or raises, and when the method comes to its return the
\* tracing is off, one start and one stop were made per available adapter,
\* and the result holds a memory record for exactly the available adapters.
C28_TracingAlternates ==
    /\ [](/\ \A k \in 1..Len(TraceCalls) :
                 TraceCalls[k] = IF k % 2 = 1 THEN "start" ELSE "stop"
          /\ tracing <=> (Len(TraceCalls) % 2 = 1)
          /\ \A k \in 1..Len(tracelog) :
                 tracelog[k] \in {"raised", "returned"} =>
                     /\ tracelog[k - 1] = "start"
                     /\ pc \notin {"mem_append", "idle"} \/ k < Len(tracelog)
                     /\ k < Len(tracelog) => tracelog[k + 1] = "stop"
          /\ pc = "idle" => ~tracing
          /\ pc = "mem_append" =>
                 /\ ~tracing
                 /\ Len(TraceCalls) = 2 * AvailableAdapters
                 /\ Len(tracelog) = 3 * AvailableAdapters
                 /\ IF CYTHON_AVAILABLE
                    THEN IsMemoryRecord(result.cython_memory)
                    ELSE result.cython_memory = None
                 /\ IF CTYPES_AVAILABLE
                    THEN IsMemoryRecord(result.ctypes_memory)
                    ELSE result.ctypes_memory = None)
    /\ [][/\ tracing' # tracing => Len(tracelog') = Len(tracelog) + 1
          /\ (pc = "mem_append" /\ pc' = "idle") =>
                 results' = Append(results, result)
         ]_vars

\* C28 witness: the measured Cython call raised and the ctypes call returned;
\* the method is at its return with both records stored and the tracing off.
C28_Witness ==
    /\ pc = "mem_append"
    /\ tracelog = <<"start", "raised", "stop", "start", "returned", "stop">>
    /\ ~tracing
    /\ result.cython_memory = [current |-> 1, peak |-> 2, rss_delta |-> -1]
    /\ IsMemoryRecord(result.ctypes_memory)

\* C27: add_timing('cython', t) appends t to cython_times and leaves
\* ctypes_times alone; add_timing with any other label appends t to
\* ctypes_times and leaves cython_times alone; either way name, category,
\* params and the two memory fields stay as they were, and the two lists
\* together grow by exactly one element.
C27_AddTimingFrame ==
    [][result # None =>
           LET framework == pcall'.arg[1]
               t == pcall'.arg[2]
           IN  /\ IF framework = "cython"
                  THEN /\ result'.cython_times = Append(result.cython_times, t)
                       /\ result'.ctypes_times = result.ctypes_times
                  ELSE /\ result'.ctypes_times = Append(result.ctypes_times, t)
                       /\ result'.cython_times = result.cython_times
               /\ result'.name = result.name
               /\ result'.category = result.category
               /\ result'.params = result.params
               /\ result'.cython_memory = result.cython_memory
               /\ result'.ctypes_memory = result.ctypes_memory
               /\ Len(result'.cython_times) + Len(result'.ctypes_times)
                      = Len(result.cython_times) + Len(result.ctypes_times) + 1
      ]_vars

\* C27 witness: a result with params and memory records took one 'cython'
\* sample and two samples under labels that are not 'cython', the last under
\* a label that names no adapter.
C27_Witness ==
    /\ result # None
    /\ pcall = Call("add_timing", <<"numba", 1>>)
    /\ result.cython_times = <<1>>
    /\ result.ctypes_times = <<0, 1>>
    /\ result.params = [keys |-> 1]
    /\ result.cython_memory # None

\* The statistics of a saved record are guarded: a field is None exactly for
\* an adapter without samples, and the throughput is 1/mean for a positive
\* mean and 0 for a mean of 0.
StatsGuarded ==
    saved # None =>
        \A k \in 1..Len(saved.results) :
            \A framework \in {"cython", "ctypes"} :
                LET stats == saved.results[k][framework]
                    times == IF framework = "cython"
                             THEN results[k].cython_times
                             ELSE results[k].ctypes_times
                IN  /\ (stats = None) <=> (times = <<>>)
                    /\ stats # None =>
                           IF SumSeq(times) > 0
                           THEN /\ IsFrac(stats.throughput)
                                /\ stats.throughput.den # 0
                                /\ FracEq(stats.throughput,
                                          Frac(Len(times), SumSeq(times)))
                           ELSE stats.throughput = Frac(0, 1)

\* Every speedup saved was divided by a Cython mean above 0.
SpeedupDivisorPositive ==
    saved # None =>
        \A k \in 1..Len(saved.results) :
            "speedup" \in DOMAIN saved.results[k] =>
                FracPositive(saved.results[k].cython.mean)

\* C26 as stated: no derived metric is a quotient by zero: get_stats gives
\* None for an adapter without samples, the throughput is 0 for a mean of 0,
\* and every speedup computed is divided by a Cython mean above 0.
C26_NoDivisionByZero == StatsGuarded /\ SpeedupDivisorPositive

\* C26 witness: every timed Cython call took less than the clock resolves;
\* the saved record holds a speedup, the quotient by a Cython mean of 0.
C26_Witness ==
    /\ saved # None
    /\ Len(saved.results) = 1
    /\ results[1].cython_times = <<0, 0>>
    /\ results[1].ctypes_times = <<1, 1>>
    /\ saved.results[1].cython.mean = Frac(0, 2)
    /\ saved.results[1].cython.throughput = Frac(0, 1)
    /\ saved.results[1].speedup = Inf

====
